---------------------------- MODULE Spec2Model ----------------------------
(***************************************************************************)
(* A model of the SF2 sampler synthesizer: the zone resolver of            *)
(* SF2Parser (getZonesForNote / applyGenerators), the amplitude envelope   *)
(* (Adsr), the Voice runtime (prepareStart, nextSample, stop/kill/die) and *)
(* the voice scheduler of Synth (noteOn, noteOff, controlChange,           *)
(* programChange, GMReset, handleSysEx, updateScores), the file loader of   *)
(* SF2Parser (parse, loadSampleDataToMemory, clear) and the replacement of *)
(* the SoundFont (loadSf2File, loadNextSf2).                               *)
(*                                                                         *)
(* Number representation.  Floats that only ever hold multiples of a fixed *)
(* unit are kept as integers in that unit (the unit is named at each       *)
(* field).  A uint32_t is kept as the int32 with the same bit pattern      *)
(* (two's complement), so that wrap-around of a subtraction is exact and   *)
(* unsigned comparisons are made by U32Lt / U32Le.                         *)
(***************************************************************************)
EXTENDS Integers, Sequences, FiniteSets, TLC

VARIABLES
    font,       \* SF2Parser: presets, instruments, samples
    channels,   \* Synth::channels[]
    voices,     \* Synth::voices[]
    last,       \* the handler call that has just returned, if any (history)
    rq,         \* resolver model: the (note, velocity) asked and the zones returned;
                \* decoder model: the generator amount decoded; key model: the keys down;
                \* SysEx model: the last message and the value returned for it
    lp,         \* loop and playback models: a voice started from a drawn sample header
                \* and zone; loader model: the file, the heap and the parser's calls;
                \* replacement model: the position of the GUI task and the parsers alive;
                \* envelope model: the envelope; entry point model: the memory after
                \* channels[]; preset data model: the record arrays of the file
    rc,         \* task model: the positions of the control and audio tasks, the last PCM reads
    received    \* the number of MIDI messages handled so far

vars == <<font, channels, voices, last, rq, lp, rc, received>>

(***************************************************************************)
(* Bounds of the model and constants of the program                        *)
(***************************************************************************)
MAX_VOICES == 3             \* size of the modelled pool (config.h sets 19)
MAX_VOICES_PER_NOTE == 2
NOTE_STACK_SIZE == 8        \* std::array<uint8_t, 8> noteStack
ChannelCount == 16          \* ChannelState channels[16]
MaxHeld == 2                \* keys a player holds at once on one channel
MaxMessages == 5            \* MIDI messages handled in one run
DMA_BUFFER_LEN == 4         \* samples in a rendered block (config.h sets 128)
EnvOne == 2                 \* the envelope level 1.0f, in grid steps
PhaseUnit == 1 + 1          \* the phase 1.0f, in grid steps (half samples)

Channels == {0, 9}          \* the modelled MIDI channels (of 0..15); 9 is the drum channel
Notes == {60, 72}
Velocities == {100}

(***************************************************************************)
(* Generator operators (operators.h) and the views of Generator.amount     *)
(***************************************************************************)
StartLoopAddrOffset == 2
EndLoopAddrOffset == 3
ChorusEffectsSend == 15
ReverbEffectsSend == 16
Pan == 17
Instrument == 41
KeyRange == 43
VelRange == 44
StartLoopAddrCoarseOffset == 45
EndLoopAddrCoarseOffset == 50
CoarseTune == 51
SampleID == 53
SampleModes == 54
ExclusiveClass == 57
OverridingRootKey == 58

\* A generator is [oper, raw]: raw is the 16 bits of the amount union.
Gen(op, raw) == [oper |-> op, raw |-> raw]
uAmount(g) == g.raw
sAmount(g) == IF g.raw >= 32768 THEN g.raw - 65536 ELSE g.raw
rangeLo(g) == g.raw % 256
rangeHi(g) == (g.raw \div 256) % 256
\* the raw amount of a (lo, hi) range
RangeRaw(lo, hi) == hi * 256 + lo

NoSample == -1              \* nullptr for a SampleHeader*
NoVoice == -1               \* nullptr for a Voice*

(***************************************************************************)
(* Zone (SF2Parser.h): the resolved zone.  pan is in 1/100, reverbSend and *)
(* chorusSend in 1/1000 (1.0f is 1000), coarseTune in semitones.           *)
(***************************************************************************)
ZoneInit ==
    [ velLo |-> 0, velHi |-> 127, keyLo |-> 0, keyHi |-> 127,
      sample |-> NoSample, rootKey |-> -1, sampleModes |-> 0,
      exclusiveClass |-> 0, coarseTune |-> 0, pan |-> 0,
      reverbSend |-> 0, chorusSend |-> 0,
      loopStartOffset |-> 0, loopEndOffset |-> 0,
      loopStartCoarseOffset |-> 0, loopEndCoarseOffset |-> 0 ]

resolveSample(f, sampleID) ==
    IF sampleID < Len(f.samples) THEN sampleID ELSE NoSample

\* one case of the switch of applyGenerators
ApplyGen(f, z, g) ==
    CASE g.oper = SampleID -> [z EXCEPT !.sample = resolveSample(f, uAmount(g))]
      [] g.oper = KeyRange -> [z EXCEPT !.keyLo = rangeLo(g), !.keyHi = rangeHi(g)]
      [] g.oper = VelRange -> [z EXCEPT !.velLo = rangeLo(g), !.velHi = rangeHi(g)]
      [] g.oper = OverridingRootKey -> [z EXCEPT !.rootKey = sAmount(g)]
      [] g.oper = SampleModes -> [z EXCEPT !.sampleModes = uAmount(g)]
      [] g.oper = StartLoopAddrOffset -> [z EXCEPT !.loopStartOffset = sAmount(g)]
      [] g.oper = EndLoopAddrOffset -> [z EXCEPT !.loopEndOffset = sAmount(g)]
      [] g.oper = StartLoopAddrCoarseOffset ->
             [z EXCEPT !.loopStartCoarseOffset = sAmount(g)]
      [] g.oper = EndLoopAddrCoarseOffset ->
             [z EXCEPT !.loopEndCoarseOffset = sAmount(g)]
      [] g.oper = ExclusiveClass -> [z EXCEPT !.exclusiveClass = uAmount(g)]
      [] g.oper = CoarseTune -> [z EXCEPT !.coarseTune = sAmount(g)]
      [] g.oper = Pan -> [z EXCEPT !.pan = sAmount(g)]
      [] g.oper = ReverbEffectsSend -> [z EXCEPT !.reverbSend = sAmount(g)]
      [] g.oper = ChorusEffectsSend -> [z EXCEPT !.chorusSend = sAmount(g)]
      [] OTHER -> z

RECURSIVE ApplyGenLoop(_, _, _, _)
ApplyGenLoop(f, gens, i, z) ==
    IF i > Len(gens) THEN z
    ELSE ApplyGenLoop(f, gens, i + 1, ApplyGen(f, z, gens[i]))

\* the two statements that close applyGenerators
SendDefaults(z) ==
    LET z1 == IF z.chorusSend = 0 THEN [z EXCEPT !.chorusSend = 1000] ELSE z
    IN  IF z1.reverbSend = 0 THEN [z1 EXCEPT !.reverbSend = 1000] ELSE z1

applyGenerators(f, gens, z) == SendDefaults(ApplyGenLoop(f, gens, 1, z))

\* the first Instrument generator of a preset zone, or -1
RECURSIVE FirstInstrument(_, _)
FirstInstrument(gens, i) ==
    IF i > Len(gens) THEN -1
    ELSE IF gens[i].oper = Instrument THEN sAmount(gens[i])
    ELSE FirstInstrument(gens, i + 1)

\* the scan of an instrument zone's generators: the last KeyRange, VelRange, SampleID
RECURSIVE ScanIZone(_, _, _)
ScanIZone(gens, i, acc) ==
    IF i > Len(gens) THEN acc
    ELSE LET g == gens[i] IN
         ScanIZone(gens, i + 1,
            CASE g.oper = KeyRange -> [acc EXCEPT !.keyLo = rangeLo(g), !.keyHi = rangeHi(g)]
              [] g.oper = VelRange -> [acc EXCEPT !.velLo = rangeLo(g), !.velHi = rangeHi(g)]
              [] g.oper = SampleID -> [acc EXCEPT !.sampleIndex = sAmount(g)]
              [] OTHER -> acc)

ScanInit == [sampleIndex |-> -1, keyLo |-> 0, keyHi |-> 127, velLo |-> 0, velHi |-> 127]

\* the order in which getZonesForNote applies the four generator lists
StageOrder(preset, pzone, inst, izone) ==
    <<preset.globalGenerators, pzone, inst.globalGenerators, izone>>

RECURSIVE ApplyStages(_, _, _, _)
ApplyStages(f, stages, i, z) ==
    IF i > Len(stages) THEN z
    ELSE ApplyStages(f, stages, i + 1, applyGenerators(f, stages[i], z))

\* the body of the innermost loop: the zone one instrument zone contributes, if any
IZoneResult(f, note, velocity, preset, pzone, inst, izone) ==
    LET s == ScanIZone(izone, 1, ScanInit) IN
    IF /\ s.sampleIndex >= 0 /\ s.sampleIndex < Len(f.samples)
       /\ note >= s.keyLo /\ note <= s.keyHi
       /\ velocity >= s.velLo /\ velocity <= s.velHi
    THEN <<ApplyStages(f, StageOrder(preset, pzone, inst, izone), 1,
             [ZoneInit EXCEPT !.sample = s.sampleIndex,
                              !.keyLo = s.keyLo, !.keyHi = s.keyHi,
                              !.velLo = s.velLo, !.velHi = s.velHi,
                              !.rootKey = f.samples[s.sampleIndex + 1].originalPitch])>>
    ELSE <<>>

RECURSIVE IZoneLoop(_, _, _, _, _, _, _)
IZoneLoop(f, note, velocity, preset, pzone, inst, k) ==
    IF k > Len(inst.zones) THEN <<>>
    ELSE IZoneResult(f, note, velocity, preset, pzone, inst, inst.zones[k])
         \o IZoneLoop(f, note, velocity, preset, pzone, inst, k + 1)

PZoneResult(f, note, velocity, preset, pzone) ==
    LET instIndex == FirstInstrument(pzone, 1) IN
    IF instIndex < 0 \/ instIndex >= Len(f.instruments) THEN <<>>
    ELSE IZoneLoop(f, note, velocity, preset, pzone, f.instruments[instIndex + 1], 1)

RECURSIVE PZoneLoop(_, _, _, _, _)
PZoneLoop(f, note, velocity, preset, j) ==
    IF j > Len(preset.zones) THEN <<>>
    ELSE PZoneResult(f, note, velocity, preset, preset.zones[j])
         \o PZoneLoop(f, note, velocity, preset, j + 1)

RECURSIVE PresetLoop(_, _, _, _, _, _)
PresetLoop(f, note, velocity, bank, program, i) ==
    IF i > Len(f.presets) THEN <<>>
    ELSE (IF f.presets[i].bank # bank \/ f.presets[i].program # program THEN <<>>
          ELSE PZoneLoop(f, note, velocity, f.presets[i], 1))
         \o PresetLoop(f, note, velocity, bank, program, i + 1)

getZonesForNote(f, note, velocity, bank, program) ==
    PresetLoop(f, note, velocity, bank, program, 1)

hasPreset(f, bank, program) ==
    \E i \in 1..Len(f.presets) :
        f.presets[i].bank = bank /\ f.presets[i].program = program


(***************************************************************************)
(* uint32_t held as the int32 of the same bit pattern.  Within the bounds  *)
(* of the model no sum or difference of representatives leaves the int32   *)
(* range, so + and - on representatives are + and - modulo 2^32.           *)
(***************************************************************************)
U32Lt(a, b) == IF (a >= 0) = (b >= 0) THEN a < b ELSE a >= 0
U32Le(a, b) == a = b \/ U32Lt(a, b)

(***************************************************************************)
(* Adsr (adsr.cpp).  The level x_ is kept on a grid of EnvOne steps for    *)
(* 1.0f.  The envelope times are those every zone of the modelled fonts    *)
(* resolves to: attack, hold, decay and release time 0 (coefficient 1, an  *)
(* instant change), sustain level 1.0; the fast and semi-fast release      *)
(* keep the times Adsr::init sets, a coefficient below 1: the level falls  *)
(* by one grid step per call of process().                                 *)
(***************************************************************************)
EnvInit == [mode |-> "IDLE", x |-> 0]

retrigger(e) == [mode |-> "ATTACK", x |-> 0]     \* hardness END_NOW

end(e, hardness) ==
    CASE hardness = "END_NOW" -> [mode |-> "IDLE", x |-> 0]
      [] hardness = "END_FAST" -> [e EXCEPT !.mode = "FAST_RELEASE"]
      [] hardness = "END_SEMI_FAST" -> [e EXCEPT !.mode = "SEMI_FAST_RELEASE"]
      [] OTHER -> [e EXCEPT !.mode = "RELEASE"]

\* a process() whose release segments never run out
process_holdsRelease(e) ==
    IF e.mode = "ATTACK" THEN [mode |-> "DECAY", x |-> EnvOne] ELSE e

\* Adsr::process: the envelope after the call (its return value is the new x)
process(e) ==
    CASE e.mode = "ATTACK" -> [mode |-> "DECAY", x |-> EnvOne]
      [] e.mode = "HOLD" -> [e EXCEPT !.mode = "DECAY"]
      [] e.mode = "DECAY" -> [e EXCEPT !.x = EnvOne]
      [] e.mode = "RELEASE" -> [mode |-> "IDLE", x |-> 0]
      [] e.mode \in {"FAST_RELEASE", "SEMI_FAST_RELEASE"} ->
             IF e.x - 1 < 0 THEN [mode |-> "IDLE", x |-> 0]
             ELSE [e EXCEPT !.x = e.x - 1]
      [] OTHER -> e

isRunning(e) == e.mode # "IDLE"
isIdle(e) == e.mode = "IDLE"
ReleaseSegments == {"RELEASE", "FAST_RELEASE", "SEMI_FAST_RELEASE"}

(***************************************************************************)
(* ChannelState (channel.h)                                                *)
(***************************************************************************)
ChannelInit ==
    [ isDrum |-> FALSE, sustainPedal |-> FALSE,
      bankMSB |-> 0, bankLSB |-> 0, program |-> 0,
      wantBankMSB |-> 0, wantBankLSB |-> 0, wantProgram |-> 0,
      monoMode |-> "Poly", noteStack |-> <<>>, tuningSemitones |-> 0 ]

pushNote(c, note) ==
    IF Len(c.noteStack) < NOTE_STACK_SIZE
    THEN [c EXCEPT !.noteStack = Append(@, note)] ELSE c

RECURSIVE FirstIndexOf(_, _, _)
FirstIndexOf(s, note, i) ==
    IF i > Len(s) THEN 0
    ELSE IF s[i] = note THEN i ELSE FirstIndexOf(s, note, i + 1)

\* a removeNote that takes out the last occurrence of the note
removeNote_lastOccurrence(c, note) ==
    LET at == {k \in 1..Len(c.noteStack) : c.noteStack[k] = note} IN
    IF at = {} THEN c
    ELSE LET i == CHOOSE k \in at : \A j \in at : j <= k
         IN  [c EXCEPT !.noteStack = SubSeq(@, 1, i - 1) \o SubSeq(@, i + 1, Len(@))]

removeNote(c, note) ==
    LET i == FirstIndexOf(c.noteStack, note, 1) IN
    IF i = 0 THEN c
    ELSE [c EXCEPT !.noteStack =
             SubSeq(@, 1, i - 1) \o SubSeq(@, i + 1, Len(@))]

topNote(c) == IF Len(c.noteStack) > 0 THEN c.noteStack[Len(c.noteStack)] ELSE 255
hasNotes(c) == Len(c.noteStack) > 0
clearNoteStack(c) == [c EXCEPT !.noteStack = <<>>]

getBank(c) == c.bankMSB * 128 + c.bankLSB
getWantBank(c) == c.wantBankMSB * 128 + c.wantBankLSB
setBank(c, bank) ==
    [c EXCEPT !.bankMSB = (bank \div 128) % 128, !.bankLSB = bank % 128]

\* ChannelState::reset: the controller fields of the model it sets
ChannelReset(c) ==
    [c EXCEPT !.isDrum = FALSE, !.sustainPedal = FALSE,
              !.monoMode = "Poly", !.noteStack = <<>>]


(***************************************************************************)
(* Voice (voice.h, voice.cpp).  phase and effectivePhaseIncrement (inc)    *)
(* are in 1/PhaseUnit samples.  The fields the model leaves out are the    *)
(* channel controllers it does not model (volume, expression, pan, pitch   *)
(* bend, portamento, mod wheel: all at their defaults, factor 1.0) and the *)
(* filter and send amounts, which no modelled decision reads.  The score   *)
(* field is written by updateScore right before each of its reads, so it   *)
(* is computed where it is read.                                           *)
(***************************************************************************)
VoiceInit ==
    [ active |-> FALSE, channel |-> 0, note |-> 0, velocity |-> 0,
      noteHeld |-> FALSE, exclusiveClass |-> 0, sample |-> NoSample, data |-> NoSample,
      phase |-> 0, inc |-> 0, forward |-> TRUE,
      length |-> 0, loopStart |-> 0, loopEnd |-> 0, loopLength |-> 0,
      loopType |-> "NO_LOOP", zone |-> ZoneInit, ampEnv |-> EnvInit ]

\* LoopType (voice.h) of zone.sampleModes & 0x0003
LoopTypeOf(sampleModes) ==
    CASE sampleModes % 4 = 0 -> "NO_LOOP"
      [] sampleModes % 4 = 1 -> "FORWARD_LOOP"
      [] sampleModes % 4 = 2 -> "SUSTAIN_LOOP"
      [] OTHER -> "PING_PONG_LOOP"

\* sampleRate * DIV_SAMPLE_RATE * exp2f(semi / 12) for a sample recorded at
\* SAMPLE_RATE and a whole number of octaves (the modelled fonts give no other)
PhaseInc(semi) ==
    IF semi >= 0 THEN PhaseUnit * 2 ^ (semi \div 12)
    ELSE PhaseUnit \div 2 ^ ((0 - semi) \div 12)

\* the loop region check that closes Voice::prepareStart, on the uint32_t fields:
\* loopStart < 0 is false of every uint32_t and loopLength <= 0 is loopLength == 0
LoopRegionRejected(loopType, loopStart, loopEnd, loopLength, length) ==
    \/ loopType = "UNUSED"
    \/ U32Lt(length, loopEnd)
    \/ loopLength = 0

\* Voice::prepareStart writes the voice's fields in this order; PrepareStep(k, ...)
\* is the k-th group of writes.  data is the sample whose PCM buffer it points to.
PrepareSteps == 6

PrepareStep(k, v, ch, note_, vel, z, chan, f) ==
    LET smp == f.samples[z.sample + 1]
        rootKey == IF z.rootKey >= 0 THEN z.rootKey ELSE smp.originalPitch
        semi == (note_ - rootKey) + z.coarseTune + chan.tuningSemitones
        loopStartOffset == z.loopStartOffset + z.loopStartCoarseOffset * 32768
        loopEndOffset == z.loopEndOffset + z.loopEndCoarseOffset * 32768
        length == smp.end - smp.start
        loopStart == smp.startLoop + loopStartOffset - smp.start
        loopEnd == smp.endLoop + loopEndOffset - smp.start
        loopLength == loopEnd - loopStart
        loopType == LoopTypeOf(z.sampleModes)
    IN  CASE k = 1 -> [v EXCEPT !.zone = z, !.sample = z.sample, !.data = z.sample]
          [] k = 2 -> [v EXCEPT !.note = note_, !.velocity = vel, !.channel = ch,
                                !.forward = TRUE]
          [] k = 3 -> [v EXCEPT !.phase = PhaseUnit]
          [] k = 4 -> [v EXCEPT !.noteHeld = TRUE, !.exclusiveClass = z.exclusiveClass]
          [] k = 5 -> [v EXCEPT !.inc = PhaseInc(semi)]
          [] OTHER -> [v EXCEPT !.length = length, !.loopStart = loopStart,
                                !.loopEnd = loopEnd, !.loopLength = loopLength,
                                !.loopType =
                                    IF LoopRegionRejected(loopType, loopStart, loopEnd,
                                                          loopLength, length)
                                    THEN "NO_LOOP" ELSE loopType]

RECURSIVE PrepareFrom(_, _, _, _, _, _, _, _)
PrepareFrom(k, v, ch, note_, vel, z, chan, f) ==
    IF k > PrepareSteps THEN v
    ELSE PrepareFrom(k + 1, PrepareStep(k, v, ch, note_, vel, z, chan, f),
                     ch, note_, vel, z, chan, f)

prepareStart(v, ch, note_, vel, z, chan, f) ==
    PrepareFrom(1, v, ch, note_, vel, z, chan, f)

startNew(v, ch, note_, vel, z, chan, f) ==
    [ prepareStart(v, ch, note_, vel, z, chan, f) EXCEPT
          !.ampEnv = retrigger(@), !.active = TRUE ]

\* an updatePitchOnly that leaves the voice on its note
updatePitchOnly_keepsNote(v, newNote, f) == v

updatePitchOnly(v, newNote, f) ==
    LET rootKey == IF v.zone.rootKey >= 0 THEN v.zone.rootKey
                   ELSE f.samples[v.sample + 1].originalPitch
        semi == (newNote - rootKey) + v.zone.coarseTune
    IN  [v EXCEPT !.inc = PhaseInc(semi), !.note = newNote]

\* *modSustain: the pedal of the channel the voice was started on
\* a stop() that does not look at the pedal
stop_ignoringPedal(v, chs) ==
    [v EXCEPT !.noteHeld = FALSE, !.ampEnv = end(@, "END_REGULAR")]

stop(v, chs) ==
    IF ~ chs[v.channel].sustainPedal
    THEN [v EXCEPT !.noteHeld = FALSE, !.ampEnv = end(@, "END_REGULAR")]
    ELSE v

\* a kill() that leaves the voice to the envelope's fast release
kill_fades(v) ==
    [v EXCEPT !.ampEnv = end(@, "END_FAST"), !.noteHeld = FALSE]

kill(v) ==
    [v EXCEPT !.ampEnv = end(@, "END_NOW"), !.noteHeld = FALSE, !.active = FALSE]

\* a die() that ends the envelope with the regular release
die_regularRelease(v) ==
    [v EXCEPT !.noteHeld = FALSE, !.ampEnv = end(@, "END_REGULAR")]

die(v) ==
    [v EXCEPT !.noteHeld = FALSE, !.ampEnv = end(@, "END_FAST")]

\* float comparisons and arithmetic of phase with a uint32_t field (phases stay
\* far below 2^31: a field at or above 2^31 exceeds every phase)
PhaseGe(phase, u) == u >= 0 /\ phase >= u * PhaseUnit
PhaseLe(phase, u) == u < 0 \/ phase <= u * PhaseUnit

\* a loop switch whose NO_LOOP case advances the phase and never ends the voice
AdvancePhase_keepsPlaying(v) ==
    [v EXCEPT !.phase = v.phase + v.inc]

\* a loop switch whose SUSTAIN_LOOP case wraps whether the note is held or not
AdvancePhase_wrapsReleased(v) ==
    LET p == v.phase + v.inc IN
    IF v.loopType \in {"FORWARD_LOOP", "SUSTAIN_LOOP"}
    THEN [ v EXCEPT !.phase = IF PhaseGe(p, v.loopEnd)
                              THEN p - v.loopLength * PhaseUnit ELSE p ]
    ELSE [ v EXCEPT !.phase = p,
                    !.active = IF PhaseGe(p, v.length) THEN FALSE ELSE @ ]

\* the part of nextSample after the envelope is processed: the loop switch
AdvancePhase(v) ==
    CASE v.loopType = "FORWARD_LOOP" ->
           LET p == v.phase + v.inc IN
           [ v EXCEPT !.phase = IF PhaseGe(p, v.loopEnd)
                                THEN p - v.loopLength * PhaseUnit ELSE p ]
      [] v.loopType = "SUSTAIN_LOOP" ->
           LET p == v.phase + v.inc IN
           IF v.noteHeld
           THEN [ v EXCEPT !.phase = IF PhaseGe(p, v.loopEnd)
                                     THEN p - v.loopLength * PhaseUnit ELSE p ]
           ELSE [ v EXCEPT !.phase = p, !.loopType = "NO_LOOP",
                           !.active = IF PhaseGe(p, v.length) THEN FALSE ELSE @ ]
      [] v.loopType = "PING_PONG_LOOP" ->
           IF v.forward
           THEN LET p == v.phase + v.inc IN
                IF PhaseGe(p, v.loopEnd)
                THEN [v EXCEPT !.phase = 2 * v.loopEnd * PhaseUnit - p,
                               !.forward = FALSE]
                ELSE [v EXCEPT !.phase = p]
           ELSE LET p == v.phase - v.inc IN
                IF PhaseLe(p, v.loopStart)
                THEN [v EXCEPT !.phase = 2 * v.loopStart * PhaseUnit - p,
                               !.forward = TRUE]
                ELSE [v EXCEPT !.phase = p]
      [] OTHER ->
           LET p == v.phase + v.inc IN
           [ v EXCEPT !.phase = p,
                      !.active = IF PhaseGe(p, v.length) THEN FALSE ELSE @ ]

\* whether the loop switch of nextSample returns early (the sample ran out)
RanOut(v, w) ==
    /\ v.loopType \in {"NO_LOOP", "SUSTAIN_LOOP"}
    /\ ~ (v.loopType = "SUSTAIN_LOOP" /\ v.noteHeld)
    /\ PhaseGe(w.phase, v.length)

\* idx = (uint32_t)phase of a phase that is not negative
PhaseIdx(phase) == phase \div PhaseUnit

\* nextSample after the two PCM reads: the envelope, the loop switch, the idle check
NextSampleTail(v) ==
    LET e == process(v.ampEnv)
        w == AdvancePhase([v EXCEPT !.ampEnv = e])
    IN  IF RanOut(v, w) THEN w
        ELSE IF isIdle(e) THEN [w EXCEPT !.active = FALSE]
        ELSE w

nextSample(v) ==
    IF v.sample = NoSample THEN [v EXCEPT !.active = FALSE]
    ELSE IF ~ U32Lt(PhaseIdx(v.phase), v.length) THEN [v EXCEPT !.active = FALSE]
    ELSE NextSampleTail(v)

\* Voice::updateScore: it calls ampEnv.process(), which advances the envelope
updateScore(v) ==
    IF ~ v.active \/ v.sample = NoSample THEN v
    ELSE [v EXCEPT !.ampEnv = process(@)]

\* the score updateScore leaves in v.score, in units of 1/(10 * EnvOne * 127):
\* env * velocityVolume, times 0.1 when the envelope is not running
ScoreOf(v) ==
    IF ~ v.active \/ v.sample = NoSample THEN 0
    ELSE LET e == process(v.ampEnv) IN
         IF ~ isRunning(e) \/ isIdle(e) THEN e.x * v.velocity
         ELSE e.x * v.velocity * 10


(***************************************************************************)
(* Synth (synth.cpp): the voice scheduler.  A handler is an operator from  *)
(* the pool vs and the channels chs to their values when it returns.       *)
(***************************************************************************)
VoiceIds == 0 .. (MAX_VOICES - 1)
ScoreMax == 10 * EnvOne * 127 + 1      \* FLT_MAX: above every score

RECURSIVE WeakestLoop(_, _, _, _, _, _, _, _)
WeakestLoop(vs, ch, note, exclusiveClass, i, weakest, weakestScore, count) ==
    IF i >= MAX_VOICES
    THEN [ vs |-> vs,
           v |-> IF count >= MAX_VOICES_PER_NOTE /\ weakest # NoVoice
                 THEN weakest ELSE NoVoice ]
    ELSE LET v == vs[i] IN
         IF v.active /\ v.channel = ch
         THEN LET v1 == IF v.exclusiveClass > 0 /\ v.exclusiveClass = exclusiveClass
                        THEN die(v) ELSE v
              IN  IF v1.note = note
                  THEN LET sc == ScoreOf(v1)
                           v2 == updateScore(v1)
                       IN  WeakestLoop([vs EXCEPT ![i] = v2], ch, note,
                                       exclusiveClass, i + 1,
                                       IF sc < weakestScore THEN i ELSE weakest,
                                       IF sc < weakestScore THEN sc ELSE weakestScore,
                                       count + 1)
                  ELSE WeakestLoop([vs EXCEPT ![i] = v1], ch, note,
                                   exclusiveClass, i + 1, weakest, weakestScore, count)
         ELSE WeakestLoop(vs, ch, note, exclusiveClass, i + 1,
                          weakest, weakestScore, count)

findWeakestVoiceOnNote(vs, ch, note, exclusiveClass) ==
    WeakestLoop(vs, ch, note, exclusiveClass, 0, NoVoice, ScoreMax, 0)

RECURSIVE WorstLoop(_, _, _, _)
WorstLoop(vs, i, worst, minScore) ==
    IF i >= MAX_VOICES THEN [vs |-> vs, v |-> worst]
    ELSE LET sc == ScoreOf(vs[i])
             v1 == updateScore(vs[i])
             vs1 == [vs EXCEPT ![i] = v1]
         IN  IF ~ v1.active \/ ~ isRunning(v1.ampEnv) THEN [vs |-> vs1, v |-> i]
             ELSE IF sc < minScore THEN WorstLoop(vs1, i + 1, i, sc)
             ELSE WorstLoop(vs1, i + 1, worst, minScore)

\* a findWorstVoice without the weakest-voice fallback: nullptr when every voice runs
findWorstVoice_idleOnly(vs) ==
    LET r == WorstLoop(vs, 0, NoVoice, ScoreMax) IN
    IF r.v # NoVoice /\ r.vs[r.v].active /\ isRunning(r.vs[r.v].ampEnv)
    THEN [vs |-> r.vs, v |-> NoVoice] ELSE r

\* a findWorstVoice that refreshes the scores and then takes the last voice of the pool
findWorstVoice_lastSlot(vs) ==
    [vs |-> WorstLoop(vs, 0, NoVoice, ScoreMax).vs, v |-> MAX_VOICES - 1]

findWorstVoice(vs) == WorstLoop(vs, 0, NoVoice, ScoreMax)

allocateVoice(vs, ch, note, exclusiveClass) ==
    LET a == findWeakestVoiceOnNote(vs, ch, note, exclusiveClass) IN
    IF a.v # NoVoice THEN a ELSE findWorstVoice(a.vs)

\* the loop "for (auto& zone : zones)" of noteOn, from zone k on; started lists
\* the voices started so far, nullAlloc tells whether allocateVoice returned nullptr
RECURSIVE StartZones(_, _, _, _, _, _, _, _, _)
StartZones(vs, chan, ch, note, vel, zones, k, f, acc) ==
    IF k > Len(zones) THEN [vs |-> vs, started |-> acc.started, nullAlloc |-> acc.nullAlloc]
    ELSE IF zones[k].sample = NoSample
         THEN StartZones(vs, chan, ch, note, vel, zones, k + 1, f, acc)
    ELSE LET a == allocateVoice(vs, ch, note, zones[k].exclusiveClass) IN
         IF a.v = NoVoice
         THEN StartZones(a.vs, chan, ch, note, vel, zones, k + 1, f,
                         [acc EXCEPT !.nullAlloc = TRUE])
         ELSE StartZones([a.vs EXCEPT ![a.v] = startNew(@, ch, note, vel, zones[k], chan, f)],
                         chan, ch, note, vel, zones, k + 1, f,
                         [acc EXCEPT !.started = Append(@, a.v)])

NoStart == [started |-> <<>>, nullAlloc |-> FALSE]

\* a legato branch that retriggers the envelope of the voices it retunes
LegatoPass_retriggers(vs, ch, note, f) ==
    [ i \in VoiceIds |->
        IF vs[i].active /\ vs[i].channel = ch
        THEN IF ~ vs[i].noteHeld THEN die(vs[i])
             ELSE [updatePitchOnly(vs[i], note, f) EXCEPT !.ampEnv = retrigger(@)]
        ELSE vs[i] ]

\* the legato branch of noteOn: retune the held voices of the channel, die() the rest
LegatoPass(vs, ch, note, f) ==
    [ i \in VoiceIds |->
        IF vs[i].active /\ vs[i].channel = ch
        THEN IF ~ vs[i].noteHeld THEN die(vs[i])
             ELSE updatePitchOnly(vs[i], note, f)
        ELSE vs[i] ]

noteOff(vs, chs, ch, note, f) ==
    LET chan == removeNote(chs[ch], note)
        nextNote == topNote(chan)
        isMono == chan.monoMode # "Poly"
        isRetrig == chan.monoMode = "MonoRetrig"
        chs1 == [chs EXCEPT ![ch] = chan]
        Off(v) ==
            IF ~ v.active \/ v.channel # ch THEN v
            ELSE IF isMono
                 THEN IF ~ hasNotes(chan)
                      THEN stop([v EXCEPT !.noteHeld = FALSE], chs1)
                      ELSE IF isRetrig
                           THEN IF v.note = note
                                THEN die([v EXCEPT !.noteHeld = FALSE]) ELSE v
                           ELSE IF v.note # nextNote
                                THEN updatePitchOnly(v, nextNote, f) ELSE v
                 ELSE IF v.note = note
                      THEN stop([v EXCEPT !.noteHeld = FALSE], chs1) ELSE v
    IN  [ vs |-> [i \in VoiceIds |-> Off(vs[i])], chs |-> chs1,
          started |-> <<>>, nullAlloc |-> FALSE, zones |-> 0 ]

\* a noteOn that pushes the note before it looks for zones, and starts nothing
noteOn_pushesFirst(vs, chs, ch, note, vel, f) ==
    [ vs |-> vs, chs |-> [chs EXCEPT ![ch] = pushNote(@, note)],
      started |-> <<>>, nullAlloc |-> FALSE, zones |-> 0 ]

noteOn(vs, chs, ch, note, vel, f) ==
    IF vel = 0 THEN noteOff(vs, chs, ch, note, f)
    ELSE
    LET chan0 == chs[ch]
        isMono == chan0.monoMode # "Poly"
        retrig == chan0.monoMode # "MonoLegato"
        zones == getZonesForNote(f, note, vel, getBank(chan0), chan0.program)
        chan == pushNote(chan0, note)
        chs1 == [chs EXCEPT ![ch] = chan]
        killed == [ i \in VoiceIds |->
                      IF vs[i].active /\ vs[i].channel = ch THEN die(vs[i]) ELSE vs[i] ]
        reused == \E i \in VoiceIds :
                      vs[i].active /\ vs[i].channel = ch /\ vs[i].noteHeld
        r == IF isMono
             THEN IF retrig
                  THEN StartZones(killed, chan, ch, note, vel, zones, 1, f, NoStart)
                  ELSE IF reused
                       THEN [ vs |-> LegatoPass(vs, ch, note, f),
                              started |-> <<>>, nullAlloc |-> FALSE ]
                       ELSE StartZones(LegatoPass(vs, ch, note, f), chan, ch, note,
                                       vel, zones, 1, f, NoStart)
             ELSE StartZones(vs, chan, ch, note, vel, zones, 1, f, NoStart)
    IN  IF zones = <<>>
        THEN [ vs |-> vs, chs |-> chs, started |-> <<>>, nullAlloc |-> FALSE, zones |-> 0 ]
        ELSE [ vs |-> r.vs, chs |-> chs1, started |-> r.started,
               nullAlloc |-> r.nullAlloc,
               zones |-> Cardinality({k \in 1..Len(zones) : zones[k].sample # NoSample}) ]

soundOff(vs, ch) ==
    [ i \in VoiceIds |->
        IF vs[i].active /\ vs[i].channel = ch THEN kill(vs[i]) ELSE vs[i] ]

allNotesOff(vs, chs, ch) ==
    [ i \in VoiceIds |->
        IF vs[i].active /\ vs[i].channel = ch THEN stop(vs[i], chs) ELSE vs[i] ]

setChannelMode(chs, ch, mode) ==
    [chs EXCEPT ![ch] = clearNoteStack([@ EXCEPT !.monoMode = mode])]

\* an applyBankProgram that tries (bank 0, program) on drum channels too
applyBankProgram_bank0OnDrums(chs, ch, f) ==
    LET st0 == clearNoteStack(chs[ch])
        program == st0.wantProgram
        bank == getWantBank(st0)
        drum == ch = 9 \/ st0.wantBankMSB = 127 \/ st0.wantBankMSB = 120 \/ bank = 128
        st == [st0 EXCEPT !.isDrum = drum]
        fallbackBank == IF drum THEN 128 ELSE 0
    IN  [ chs EXCEPT ![ch] =
            IF hasPreset(f, bank, program)
            THEN setBank([st EXCEPT !.program = program], bank)
            ELSE IF hasPreset(f, 0, program)
            THEN setBank([st EXCEPT !.program = program], 0)
            ELSE IF hasPreset(f, fallbackBank, 0)
            THEN setBank([st EXCEPT !.program = 0], fallbackBank)
            ELSE st ]

\* an applyBankProgram that adopts the requested bank and program unseen
applyBankProgram_adoptsRequest(chs, ch, f) ==
    LET st == clearNoteStack(chs[ch])
    IN  [ chs EXCEPT ![ch] = setBank([st EXCEPT !.program = st.wantProgram],
                                     getWantBank(st)) ]

applyBankProgram(chs, ch, f) ==
    LET st0 == clearNoteStack(chs[ch])
        program == st0.wantProgram
        bank == getWantBank(st0)
        drum == ch = 9 \/ st0.wantBankMSB = 127 \/ st0.wantBankMSB = 120 \/ bank = 128
        st == [st0 EXCEPT !.isDrum = drum]
        fallbackBank == IF drum THEN 128 ELSE 0
    IN  [ chs EXCEPT ![ch] =
            IF hasPreset(f, bank, program)
            THEN setBank([st EXCEPT !.program = program], bank)
            ELSE IF ~ drum /\ hasPreset(f, 0, program)
            THEN setBank([st EXCEPT !.program = program], 0)
            ELSE IF hasPreset(f, fallbackBank, 0)
            THEN setBank([st EXCEPT !.program = 0], fallbackBank)
            ELSE st ]

programChange(chs, ch, program, f) ==
    applyBankProgram([chs EXCEPT ![ch].wantProgram = program % 128], ch, f)

\* the controllers the model follows; every other controller writes a channel
\* field that no modelled decision reads
controlChange(vs, chs, ch, ctrl, val, f) ==
    CASE ctrl = 0 -> [vs |-> vs, chs |-> [chs EXCEPT ![ch].wantBankMSB = val % 128]]
      [] ctrl = 32 -> [vs |-> vs, chs |-> [chs EXCEPT ![ch].wantBankLSB = val % 128]]
      [] ctrl = 64 ->
           LET sustainOn == val >= 64
               chs1 == [chs EXCEPT ![ch].sustainPedal = sustainOn]
           IN  [ vs |-> IF sustainOn THEN vs
                        ELSE [ i \in VoiceIds |->
                                 IF vs[i].active /\ vs[i].channel = ch /\ ~ vs[i].noteHeld
                                 THEN stop(vs[i], chs1) ELSE vs[i] ],
                 chs |-> chs1 ]
      [] ctrl = 120 -> [vs |-> soundOff(vs, ch), chs |-> chs]
      [] ctrl = 121 -> [vs |-> vs, chs |-> [chs EXCEPT ![ch] = ChannelReset(@)]]
      [] ctrl = 123 -> [vs |-> allNotesOff(vs, chs, ch), chs |-> chs]
      [] ctrl = 126 ->
           [ vs |-> vs,
             chs |-> setChannelMode(chs, ch, IF val > 0 THEN "MonoLegato" ELSE "MonoRetrig") ]
      [] ctrl = 127 -> [vs |-> vs, chs |-> setChannelMode(chs, ch, "Poly")]
      [] OTHER -> [vs |-> vs, chs |-> chs]

\* a channel loop body of GMReset that requests bank 0 on every channel
GMResetChannel_bank0(st, ch, f) ==
    LET c1 == [ ChannelReset(st.chs[ch]) EXCEPT
                  !.wantProgram = 0, !.wantBankMSB = 0, !.wantBankLSB = 0 ]
        chs2 == applyBankProgram([st.chs EXCEPT ![ch] = c1], ch, f)
    IN  [ vs |-> soundOff(allNotesOff(st.vs, chs2, ch), ch), chs |-> chs2 ]

\* the body of the channel loop of GMReset, for channel ch
GMResetChannel(st, ch, f) ==
    LET c1 == [ ChannelReset(st.chs[ch]) EXCEPT
                  !.wantProgram = 0,
                  !.wantBankMSB = IF ch = 9 THEN 1 ELSE 0,
                  !.wantBankLSB = 0 ]
        chs2 == applyBankProgram([st.chs EXCEPT ![ch] = c1], ch, f)
    IN  [ vs |-> soundOff(allNotesOff(st.vs, chs2, ch), ch), chs |-> chs2 ]

RECURSIVE GMResetLoop(_, _, _)
GMResetLoop(st, todo, f) ==
    IF todo = {} THEN st
    ELSE LET ch == CHOOSE c \in todo : \A d \in todo : c <= d
         IN  GMResetLoop(GMResetChannel(st, ch, f), todo \ {ch}, f)

GMReset(vs, chs, f) == GMResetLoop([vs |-> vs, chs |-> chs], DOMAIN chs, f)

\* SysEx messages are sequences of bytes; data[k] of the code is data[k + 1] here
IsGMSystemOn(data) ==
    /\ Len(data) = 6
    /\ data[1] = 240 /\ data[2] = 126 /\ data[4] = 9 /\ data[5] = 1 /\ data[6] = 247

IsXGSystemOn(data) ==
    /\ Len(data) = 9
    /\ data[1] = 240 /\ data[2] = 67 /\ data[4] = 76 /\ data[5] = 0
    /\ data[6] = 0 /\ data[7] = 126 /\ data[8] = 0 /\ data[9] = 247

IsXGPartParam(data) ==
    /\ Len(data) = 9
    /\ data[1] = 240 /\ data[2] = 67 /\ data[4] = 76 /\ data[5] = 8 /\ data[9] = 247

\* a handleSysEx that takes any parameter of an XG part message for the
\* mono/poly switch
handleSysEx_anyParam(vs, chs, data, f) ==
    IF IsGMSystemOn(data) \/ IsXGSystemOn(data)
    THEN [vs |-> GMReset(vs, chs, f).vs, chs |-> GMReset(vs, chs, f).chs, ok |-> TRUE]
    ELSE IF IsXGPartParam(data) /\ data[6] < ChannelCount
    THEN [ vs |-> vs,
           chs |-> setChannelMode(chs, data[6],
                                  IF data[8] = 0 THEN "MonoLegato" ELSE "Poly"),
           ok |-> TRUE ]
    ELSE [vs |-> vs, chs |-> chs, ok |-> FALSE]

\* ok is the value handleSysEx returns
handleSysEx(vs, chs, data, f) ==
    IF IsGMSystemOn(data) \/ IsXGSystemOn(data)
    THEN LET r == GMReset(vs, chs, f) IN [vs |-> r.vs, chs |-> r.chs, ok |-> TRUE]
    ELSE IF IsXGPartParam(data) /\ data[6] < ChannelCount
    THEN LET part == data[6]
             param == data[7]
             val == data[8]
         IN  CASE param = 5 ->
                    [ vs |-> vs,
                      chs |-> setChannelMode(chs, part,
                                  IF val = 0 THEN "MonoLegato" ELSE "Poly"),
                      ok |-> TRUE ]
               [] param = 8 ->
                    [ vs |-> vs, chs |-> [chs EXCEPT ![part].tuningSemitones = val - 64],
                      ok |-> TRUE ]
               [] param = 7 ->
                    [ vs |-> vs,
                      chs |-> applyBankProgram(
                                  [ chs EXCEPT ![part].wantBankMSB = IF val = 0 THEN 0 ELSE 1,
                                               ![part].wantBankLSB = 0 ], part, f),
                      ok |-> TRUE ]
               [] OTHER -> [vs |-> vs, chs |-> chs, ok |-> FALSE]
    ELSE [vs |-> vs, chs |-> chs, ok |-> FALSE]

updateScores(vs) == [i \in VoiceIds |-> updateScore(vs[i])]

(***************************************************************************)
(* The loaded SoundFont of the scheduler model: two one-sample-long        *)
(* forward loops, a melodic preset with two layers on key 60, the second   *)
(* in exclusive class 1 with key 72, and a drum kit in exclusive class 1.  *)
(***************************************************************************)
LoopedSample(pitch) ==
    [originalPitch |-> pitch, start |-> 0, end |-> 2, startLoop |-> 1, endLoop |-> 2]

PianoInst ==
    [ globalGenerators |-> <<Gen(SampleModes, 1)>>,
      zones |-> << <<Gen(KeyRange, RangeRaw(60, 60)), Gen(SampleID, 0)>>,
                   <<Gen(KeyRange, RangeRaw(60, 60)), Gen(ExclusiveClass, 1),
                     Gen(SampleID, 0)>>,
                   <<Gen(KeyRange, RangeRaw(72, 72)), Gen(ExclusiveClass, 1),
                     Gen(SampleID, 1)>> >> ]

KitInst ==
    [ globalGenerators |-> <<Gen(SampleModes, 1), Gen(ExclusiveClass, 1)>>,
      zones |-> << <<Gen(KeyRange, RangeRaw(36, 36)), Gen(OverridingRootKey, 36),
                     Gen(SampleID, 1)>>,
                   <<Gen(KeyRange, RangeRaw(60, 60)), Gen(SampleID, 0)>> >> ]

PresetOf(bank, program, inst) ==
    [ bank |-> bank, program |-> program, globalGenerators |-> <<>>,
      zones |-> << <<Gen(Instrument, inst)>> >> ]

FontGM ==
    [ presets |-> <<PresetOf(0, 0, 0), PresetOf(128, 0, 1)>>,
      instruments |-> <<PianoInst, KitInst>>,
      samples |-> <<LoopedSample(60), LoopedSample(72)>> ]

(***************************************************************************)
(* The state machine of the scheduler: MIDI handlers run in the control    *)
(* task, one at a time; the audio task renders the active voices one       *)
(* sample at a time.                                                        *)
(***************************************************************************)
Idle == [phase |-> "none"]

\* last is the noteOn, noteOff, controlChange(64), programChange or GMReset call
\* that has just returned,
\* or NoCall after every other step.  started: the voices the call started, in
\* order; sustained: the voices the pedal was holding (controlChange) or the
\* sounding voices of the released key under the pedal (noteOff) when it was
\* called; before: the effective (bank, program) of the channel (programChange)
\* or of channel 9 (GMReset) when it was called
Last(op, ch, a, b) ==
    [ op |-> op, ch |-> ch, a |-> a, b |-> b,
      started |-> <<>>, sustained |-> {}, nullAlloc |-> FALSE, zones |-> 0,
      poolFull |-> FALSE, before |-> <<0, 0>> ]
NoCall == Last("none", 0, 0, 0)

\* one more MIDI message is taken from the input queue
Receive ==
    /\ received < MaxMessages
    /\ received' = received + 1

Init ==
    /\ font = FontGM
    /\ channels = [ch \in Channels |-> ChannelInit]
    /\ voices = [i \in VoiceIds |-> VoiceInit]
    /\ last = NoCall
    /\ rq = Idle
    /\ lp = Idle
    /\ rc = Idle
    /\ received = 0

\* the player presses a key that is up, while fewer than MaxHeld are down
NoteOn(ch, note, vel) ==
    /\ Receive
    /\ Len(channels[ch].noteStack) < MaxHeld
    /\ \A k \in 1..Len(channels[ch].noteStack) : channels[ch].noteStack[k] # note
    /\ \E r \in {noteOn(voices, channels, ch, note, vel, font)} :
       /\ voices' = r.vs
       /\ channels' = r.chs
       /\ last' = [ Last("noteOn", ch, note, vel) EXCEPT
                      !.started = r.started, !.nullAlloc = r.nullAlloc,
                      !.zones = r.zones,
                      !.poolFull = \A i \in VoiceIds : voices[i].active ]
    /\ UNCHANGED <<font, rq, lp, rc>>

NoteOff(ch, note) ==
    /\ Receive
    /\ \E r \in {noteOff(voices, channels, ch, note, font)} :
       /\ voices' = r.vs
       /\ channels' = r.chs
    /\ last' = [ Last("noteOff", ch, note, 0) EXCEPT
                   !.sustained =
                       IF channels[ch].sustainPedal
                       THEN {i \in VoiceIds : /\ voices[i].active
                                              /\ voices[i].channel = ch
                                              /\ voices[i].note = note
                                              /\ voices[i].ampEnv.mode \notin ReleaseSegments}
                       ELSE {} ]
    /\ UNCHANGED <<font, rq, lp, rc>>

ControlChange(ch, ctrl, val) ==
    /\ Receive
    /\ \E r \in {controlChange(voices, channels, ch, ctrl, val, font)} :
       /\ voices' = r.vs
       /\ channels' = r.chs
    /\ last' = IF ctrl # 64 THEN NoCall
               ELSE [ Last("controlChange", ch, ctrl, val) EXCEPT
                        !.sustained =
                            IF channels[ch].sustainPedal
                            THEN {i \in VoiceIds : /\ voices[i].active
                                                   /\ voices[i].channel = ch
                                                   /\ ~ voices[i].noteHeld
                                                   /\ voices[i].ampEnv.mode \notin ReleaseSegments}
                            ELSE {} ]
    /\ UNCHANGED <<font, rq, lp, rc>>

ProgramChange(ch, program) ==
    /\ Receive
    /\ channels' = programChange(channels, ch, program, font)
    /\ last' = [ Last("programChange", ch, program, 0) EXCEPT
                   !.before = <<getBank(channels[ch]), channels[ch].program>> ]
    /\ UNCHANGED <<font, voices, rq, lp, rc>>

SysEx(data) ==
    /\ Receive
    /\ \E r \in {handleSysEx(voices, channels, data, font)} :
       /\ voices' = r.vs
       /\ channels' = r.chs
    /\ last' = IF IsGMSystemOn(data) \/ IsXGSystemOn(data)
               THEN [ Last("GMReset", 0, Len(data), 0) EXCEPT
                        !.before = <<getBank(channels[9]), channels[9].program>> ]
               ELSE NoCall
    /\ UNCHANGED <<font, rq, lp, rc>>

\* GMReset called directly (after a SoundFont is loaded, or from the menu)
GMResetCall ==
    /\ \E r \in {GMReset(voices, channels, font)} :
       /\ voices' = r.vs
       /\ channels' = r.chs
    /\ last' = [ Last("GMReset", 0, 0, 0) EXCEPT
                   !.before = <<getBank(channels[9]), channels[9].program>> ]
    /\ UNCHANGED <<font, rq, lp, rc, received>>

UpdateScores ==
    /\ UNCHANGED received
    /\ voices' = updateScores(voices)
    /\ last' = NoCall
    /\ UNCHANGED <<font, channels, rq, lp, rc>>

\* the voice loop of renderLRBlock: every voice found active renders a block
RECURSIVE renderBlock(_, _)
\* (the voice after one nextSample is bound to x, then the rest of the block runs)
renderBlock(v, n) ==
    IF n = 0 THEN v
    ELSE CHOOSE w \in {renderBlock(x, n - 1) : x \in {nextSample(v)}} : TRUE

renderLRBlock(vs) ==
    [i \in VoiceIds |-> IF vs[i].active THEN renderBlock(vs[i], DMA_BUFFER_LEN) ELSE vs[i]]

Render ==
    /\ UNCHANGED received
    /\ voices' = renderLRBlock(voices)
    /\ last' = NoCall
    /\ UNCHANGED <<font, channels, rq, lp, rc>>

\* the inputs of the scheduler model: the player's keys, and the pedal, the
\* mode switches and the off controllers
CCInputs == {<<64, 127>>, <<64, 0>>, <<120, 0>>, <<121, 0>>, <<123, 0>>,
             <<126, 0>>, <<126, 1>>, <<127, 0>>}

Next ==
    \/ \E ch \in Channels, note \in Notes, vel \in Velocities : NoteOn(ch, note, vel)
    \/ \E ch \in Channels, note \in Notes : NoteOff(ch, note)
    \/ \E ch \in Channels, cv \in CCInputs : ControlChange(ch, cv[1], cv[2])
    \/ UpdateScores
    \/ Render

Spec == Init /\ [][Next]_vars

(***************************************************************************)
(* Properties of the scheduler (specification Spec)                        *)
(***************************************************************************)
ActiveOn(ch, note) ==
    {i \in VoiceIds : voices[i].active /\ voices[i].channel = ch /\ voices[i].note = note}

\* C1: for every (channel, note) pair the number of active voices bound to it is
\* at most MAX_VOICES_PER_NOTE, after any sequence of handler calls.
C1_VoicesPerNoteBounded ==
    \A ch \in Channels, note \in Notes :
        Cardinality(ActiveOn(ch, note)) <= MAX_VOICES_PER_NOTE

\* the positions in last.started of the voices started for exclusive class X that
\* still carry it, and the voice started last for X
StartsFor(X) ==
    {k \in 1..Len(last.started) : voices[last.started[k]].exclusiveClass = X}
LastStartedFor(X) ==
    last.started[CHOOSE k \in StartsFor(X) : \A m \in StartsFor(X) : m <= k]
ClassesStarted ==
    {voices[last.started[k]].exclusiveClass : k \in 1..Len(last.started)} \ {0}
ActiveOfClass(ch, X) ==
    {j \in VoiceIds : voices[j].active /\ voices[j].channel = ch
                      /\ voices[j].exclusiveClass = X}

\* C2 as stated: immediately after a noteOn on channel C that started a voice for
\* a zone with exclusive class X > 0, no other active voice on C has class X.
C2_NoOtherActiveOfClass ==
    last.op = "noteOn" =>
        \A X \in ClassesStarted : ActiveOfClass(last.ch, X) = {LastStartedFor(X)}

\* C2, amended: immediately after such a noteOn every other active voice of class
\* X on C has been sent to die(): its key is no longer held and its envelope is
\* in the fast release (or has already run out); it stays active until the audio
\* task renders it.
C2_OthersOfClassDying ==
    last.op = "noteOn" =>
        \A X \in ClassesStarted :
            \A j \in ActiveOfClass(last.ch, X) \ {LastStartedFor(X)} :
                /\ ~ voices[j].noteHeld
                /\ voices[j].ampEnv.mode \in {"FAST_RELEASE", "IDLE"}

C2_Witness ==
    /\ last.op = "noteOn"
    /\ \E X \in ClassesStarted :
           \E j \in ActiveOfClass(last.ch, X) \ {LastStartedFor(X)} :
               voices[j].ampEnv.mode = "FAST_RELEASE"

\* C4: a noteOn with velocity > 0 that resolves at least one zone with a sample
\* gets a voice from every allocateVoice call, also when the whole pool is
\* active; afterwards an active voice is bound to its (channel, note); the pool
\* keeps its MAX_VOICES slots.
C4_AllocationSucceeds ==
    /\ DOMAIN voices = VoiceIds
    /\ (last.op = "noteOn" /\ last.b > 0 /\ last.zones > 0) =>
           /\ ~ last.nullAlloc
           /\ ActiveOn(last.ch, last.a) # {}

C4_Witness ==
    /\ last.op = "noteOn" /\ last.b > 0 /\ last.zones > 0
    /\ last.poolFull
    /\ Len(last.started) > 0
    /\ ActiveOn(last.ch, last.a) # {}

\* C5 as stated: with the pedal down, noteOff(ch, n) puts no sounding voice of
\* (ch, n) into a release segment.
C5_NoteOffUnderPedalKeepsEnvelope ==
    last.op = "noteOff" =>
        \A i \in last.sustained : voices[i].ampEnv.mode \notin ReleaseSegments

\* C5, amended: with the pedal down, noteOff(ch, n) puts no sounding voice of
\* (ch, n) into a release segment, unless the channel is in MonoRetrig mode and
\* another key is still held (there noteOff sends the voice to die()); and a
\* controlChange(ch, 64, v) with v < 64 leaves every voice the pedal was holding,
\* and every other active voice of the channel whose key is up, in the regular
\* release segment.
C5_PedalHoldsThenReleases ==
    /\ (last.op = "noteOff"
        /\ ~ (channels[last.ch].monoMode = "MonoRetrig" /\ hasNotes(channels[last.ch])))
       => \A i \in last.sustained : voices[i].ampEnv.mode \notin ReleaseSegments
    /\ (last.op = "controlChange" /\ last.a = 64 /\ last.b < 64)
       => /\ \A i \in last.sustained : voices[i].ampEnv.mode = "RELEASE"
          /\ \A i \in VoiceIds :
                 (voices[i].active /\ voices[i].channel = last.ch /\ ~ voices[i].noteHeld)
                 => voices[i].ampEnv.mode = "RELEASE"

C5_Witness ==
    /\ last.op = "controlChange" /\ last.a = 64 /\ last.b < 64
    /\ \E i \in last.sustained : voices[i].active /\ voices[i].ampEnv.mode = "RELEASE"

(***************************************************************************)
(* The bank and program model (specification SpecBank): a SoundFont is     *)
(* loaded, then bank selects, program changes, SysEx messages and keys     *)
(* arrive.                                                                  *)
(***************************************************************************)
FontTwoPrograms ==
    [ FontGM EXCEPT !.presets = <<PresetOf(0, 0, 0), PresetOf(0, 1, 0), PresetOf(128, 0, 1)>> ]
FontBankOneOnly ==
    [ FontGM EXCEPT !.presets = <<PresetOf(1, 1, 0)>> ]
BankFonts == {FontGM, FontTwoPrograms, FontBankOneOnly}

BankInit ==
    /\ font \in BankFonts
    /\ channels = [ch \in Channels |-> ChannelInit]
    /\ voices = [i \in VoiceIds |-> VoiceInit]
    /\ last = NoCall
    /\ rq = Idle
    /\ lp = Idle
    /\ rc = Idle
    /\ received = 0

BankCCInputs == {<<0, 0>>, <<0, 1>>, <<0, 127>>, <<32, 0>>, <<32, 1>>}
Programs == {0, 1}
BankNotes == {36}
GMSystemOn == <<240, 126, 127, 9, 1, 247>>
XGSystemOn == <<240, 67, 16, 76, 0, 0, 126, 0, 247>>
XGPartParam(part, param, val) == <<240, 67, 16, 76, 8, part, param, val, 247>>
SysExInputs ==
    {GMSystemOn, XGSystemOn}
    \cup {XGPartParam(part, 5, val) : part \in Channels, val \in {0, 1}}
    \cup {XGPartParam(part, 7, val) : part \in Channels, val \in {0, 1}}
    \cup {XGPartParam(part, 8, 64) : part \in Channels}

BankNext ==
    \/ \E ch \in Channels, cv \in BankCCInputs : ControlChange(ch, cv[1], cv[2])
    \/ \E ch \in Channels, program \in Programs : ProgramChange(ch, program)
    \/ \E data \in SysExInputs : SysEx(data)
    \/ GMResetCall
    \/ \E ch \in Channels, note \in BankNotes, vel \in Velocities : NoteOn(ch, note, vel)

SpecBank == BankInit /\ [][BankNext]_vars

\* the first candidate of cands the font has a preset for, or none
RECURSIVE FirstPresent(_, _, _, _)
FirstPresent(f, cands, k, none) ==
    IF k > Len(cands) THEN none
    ELSE IF hasPreset(f, cands[k][1], cands[k][2]) THEN cands[k]
    ELSE FirstPresent(f, cands, k + 1, none)

Effective(ch) == <<getBank(channels[ch]), channels[ch].program>>
Requested(ch) == <<getWantBank(channels[ch]), channels[ch].wantProgram>>
SameProgramBank0(ch) == <<0, channels[ch].wantProgram>>
FinalFallback(ch) == <<IF channels[ch].isDrum THEN 128 ELSE 0, 0>>

\* C6 as stated: programChange(ch, p) leaves the channel at the first of
\* requested (bank, p), (bank 0, p), (bank 0 or drum bank 128, program 0) that
\* the font has a preset for.
C6_FallbackOrder ==
    last.op = "programChange" =>
        Effective(last.ch) =
            FirstPresent(font, <<Requested(last.ch), SameProgramBank0(last.ch),
                                 FinalFallback(last.ch)>>, 1, last.before)

\* C6, amended: programChange(ch, p) leaves the channel at the first candidate
\* the font has a preset for, of requested (bank, p), then (bank 0, p), then
\* (bank 0, program 0) on a melodic channel, and of requested (bank, p), then
\* (bank 128, program 0) on a drum channel: the (bank 0, p) step is not tried
\* there.  When no candidate has a preset the effective bank and program stay.
C6_FallbackOrderByChannelKind ==
    last.op = "programChange" =>
        Effective(last.ch) =
            FirstPresent(font,
                IF channels[last.ch].isDrum
                THEN <<Requested(last.ch), FinalFallback(last.ch)>>
                ELSE <<Requested(last.ch), SameProgramBank0(last.ch),
                       FinalFallback(last.ch)>>, 1, last.before)

C6_Witness ==
    /\ last.op = "programChange"
    /\ channels[last.ch].isDrum
    /\ ~ hasPreset(font, Requested(last.ch)[1], Requested(last.ch)[2])
    /\ hasPreset(font, 0, channels[last.ch].wantProgram)
    /\ Effective(last.ch) = <<128, 0>>
    /\ last.before # <<128, 0>>

Range(sq) == {sq[k] : k \in 1..Len(sq)}

\* C7: after GMReset, called directly or by a GM or XG System On SysEx, with a
\* font that has presets (0, 0) and (128, 0): channel 9 is at bank 128 program
\* 0, every other channel at bank 0 program 0, and noteOn(9, 36, 100) starts its
\* voices from the zones of the bank-128 preset.
C7_GMResetSelectsKit ==
    (last.op = "GMReset" /\ hasPreset(font, 0, 0) /\ hasPreset(font, 128, 0)) =>
        /\ \A ch \in Channels : Effective(ch) = IF ch = 9 THEN <<128, 0>> ELSE <<0, 0>>
        /\ LET r == noteOn(voices, channels, 9, 36, 100, font) IN
           /\ r.zones > 0
           /\ r.started # <<>>
           /\ \A k \in 1..Len(r.started) :
                  r.vs[r.started[k]].zone \in Range(getZonesForNote(font, 36, 100, 128, 0))

C7_Witness ==
    /\ last.op = "GMReset" /\ last.a > 0
    /\ hasPreset(font, 0, 0) /\ hasPreset(font, 128, 0)
    /\ last.before # <<128, 0>>
    /\ Effective(9) = <<128, 0>>
    /\ getZonesForNote(font, 36, 100, 128, 0) # <<>>
    /\ getZonesForNote(font, 36, 100, 0, 0) = <<>>

(***************************************************************************)
(* The resolver model (specification SpecResolve): a SoundFont with one    *)
(* preset, one preset zone, one instrument and one instrument zone, whose  *)
(* four generator lists are drawn from StageGens; getZonesForNote is then  *)
(* asked for a note and a velocity.  The amounts name the stage that       *)
(* writes them.                                                             *)
(***************************************************************************)
StageKinds == {"none", "key", "vel", "chorus", "chorusOff", "tune"}

StageGens(k, kind) ==
    CASE kind = "key" -> <<Gen(KeyRange, RangeRaw(60, 60 + k))>>
      [] kind = "vel" -> <<Gen(VelRange, RangeRaw(k, 64))>>
      [] kind = "chorus" -> <<Gen(ChorusEffectsSend, 100 * k)>>
      [] kind = "chorusOff" -> <<Gen(ChorusEffectsSend, 0)>>
      [] kind = "tune" -> <<Gen(CoarseTune, k)>>
      [] OTHER -> <<>>

LayoutFont(pg, pz, ig, iz) ==
    [ presets |-> << [ bank |-> 0, program |-> 0,
                       globalGenerators |-> StageGens(1, pg),
                       zones |-> << StageGens(2, pz) \o <<Gen(Instrument, 0)>> >> ] >>,
      instruments |-> << [ globalGenerators |-> StageGens(3, ig),
                           zones |-> << StageGens(4, iz) \o <<Gen(SampleID, 0)>> >> ] >>,
      samples |-> <<LoopedSample(60)>> ]

ResolveFonts ==
    {LayoutFont(pg, pz, ig, iz) : pg \in StageKinds, pz \in StageKinds,
                                  ig \in StageKinds, iz \in StageKinds}
QueryNotes == {40, 62}
QueryVelocities == {32, 100}

ResolveInit ==
    /\ font \in ResolveFonts
    /\ channels = [ch \in Channels |-> ChannelInit]
    /\ voices = [i \in VoiceIds |-> VoiceInit]
    /\ last = NoCall
    /\ rq = Idle
    /\ lp = Idle
    /\ rc = Idle
    /\ received = 0

Resolve(note, velocity) ==
    /\ rq' = [ phase |-> "resolved", note |-> note, velocity |-> velocity,
               zones |-> getZonesForNote(font, note, velocity, 0, 0) ]
    /\ UNCHANGED <<font, channels, voices, last, lp, rc, received>>

ResolveNext == \E note \in QueryNotes, velocity \in QueryVelocities : Resolve(note, velocity)

SpecResolve == ResolveInit /\ [][ResolveNext]_vars

\* C8: every zone getZonesForNote returns has the note within its resolved key
\* range and the velocity within its resolved velocity range.
C8_ReturnedZonesContainQuery ==
    rq.phase = "resolved" =>
        \A k \in 1..Len(rq.zones) :
            /\ rq.zones[k].keyLo <= rq.note /\ rq.note <= rq.zones[k].keyHi
            /\ rq.zones[k].velLo <= rq.velocity /\ rq.velocity <= rq.zones[k].velHi

\* the four generator lists of the layout, in the order the claim gives
ClaimedStages ==
    << font.presets[1].globalGenerators, font.presets[1].zones[1],
       font.instruments[1].globalGenerators, font.instruments[1].zones[1] >>
FieldsOf(op) ==
    CASE op = KeyRange -> {"keyLo", "keyHi"}
      [] op = VelRange -> {"velLo", "velHi"}
      [] op = ChorusEffectsSend -> {"chorusSend"}
      [] op = CoarseTune -> {"coarseTune"}
      [] OTHER -> {}
StagesSetting(op) ==
    {k \in 1..4 : \E i \in 1..Len(ClaimedStages[k]) : ClaimedStages[k][i].oper = op}
\* the generator for op that is last in the last stage that has one
LastWriter(op) ==
    LET k == CHOOSE x \in StagesSetting(op) : \A y \in StagesSetting(op) : y <= x
        at == {i \in 1..Len(ClaimedStages[k]) : ClaimedStages[k][i].oper = op}
    IN  ClaimedStages[k][CHOOSE i \in at : \A j \in at : j <= i]
LastStageWins(ops) ==
    rq.phase = "resolved" =>
        \A k \in 1..Len(rq.zones), op \in ops :
            StagesSetting(op) # {} =>
                \A fld \in FieldsOf(op) :
                    rq.zones[k][fld] = ApplyGen(font, ZoneInit, LastWriter(op))[fld]

\* C9: every resolved field of a returned zone has the value written by the last
\* of the stages preset-global, preset-zone, instrument-global, instrument-zone
\* that sets it.
C9_LastStageWins == LastStageWins({KeyRange, VelRange, ChorusEffectsSend, CoarseTune})

(***************************************************************************)
(* The loop region model (specification SpecLoop): a sample header is      *)
(* drawn, then a voice is started on it from a zone with drawn sample      *)
(* modes and loop offsets.                                                  *)
(***************************************************************************)
MaxLen == 3
LoopHeaders ==
    [ originalPitch : {60}, start : {0, 1}, end : 0..MaxLen,
      startLoop : 0..MaxLen, endLoop : 0..MaxLen ]
LoopFont(smp) == [presets |-> <<>>, instruments |-> <<>>, samples |-> <<smp>>]
LoopOffsets == {-1, 0, 1}

LoopInit ==
    /\ font \in {LoopFont(smp) : smp \in LoopHeaders}
    /\ channels = [ch \in Channels |-> ChannelInit]
    /\ voices = [i \in VoiceIds |-> VoiceInit]
    /\ last = NoCall
    /\ rq = Idle
    /\ lp = Idle
    /\ rc = Idle
    /\ received = 0

StartVoice(sampleModes, startOffset, endOffset) ==
    /\ lp' = [ phase |-> "started",
               v |-> startNew(VoiceInit, 0, 60, 100,
                              [ZoneInit EXCEPT !.sample = 0, !.rootKey = 60,
                                               !.sampleModes = sampleModes,
                                               !.loopStartOffset = startOffset,
                                               !.loopEndOffset = endOffset],
                              ChannelInit, font) ]
    /\ UNCHANGED <<font, channels, voices, last, rq, rc, received>>

LoopNext ==
    \E sampleModes \in 0..3, startOffset \in LoopOffsets, endOffset \in LoopOffsets :
        StartVoice(sampleModes, startOffset, endOffset)

SpecLoop == LoopInit /\ [][LoopNext]_vars

\* C10: a started voice whose loopType is not NO_LOOP has
\* 0 <= loopStart < loopEnd <= length, compared as the uint32_t fields they are.
C10_LoopRegionValid ==
    (lp.phase = "started" /\ lp.v.loopType # "NO_LOOP") =>
        /\ U32Le(0, lp.v.loopStart)
        /\ U32Lt(lp.v.loopStart, lp.v.loopEnd)
        /\ U32Le(lp.v.loopEnd, lp.v.length)

(***************************************************************************)
(* The two tasks (specification SpecRace): control_task runs the MIDI      *)
(* handlers on one core while audio_task runs renderLRBlock on the other,  *)
(* with no lock between them.  A noteOn is taken one step at a time: the   *)
(* allocation of a voice for a zone, then the writes of startNew in source *)
(* order; the audio task takes its voice loop one nextSample at a time.    *)
(* The channels stay in Poly mode and the font has no exclusive class, so  *)
(* noteOn reaches startNew only.  rc.ctl is the position of the control    *)
(* task, rc.au the position of the audio task, rc.read the PCM buffer and  *)
(* the index idx of the reads data[i0], data[idx] of the last nextSample.  *)
(***************************************************************************)
\* a four-sample forward loop on key 60 and a two-sample one on key 72
LongSample ==
    [originalPitch |-> 60, start |-> 0, end |-> 4, startLoop |-> 1, endLoop |-> 4]

RaceInst ==
    [ globalGenerators |-> <<Gen(SampleModes, 1)>>,
      zones |-> << <<Gen(KeyRange, RangeRaw(60, 60)), Gen(SampleID, 0)>>,
                   <<Gen(KeyRange, RangeRaw(72, 72)), Gen(SampleID, 1)>> >> ]

FontRace ==
    [ presets |-> <<PresetOf(0, 0, 0)>>,
      instruments |-> <<RaceInst>>,
      samples |-> <<LongSample, LoopedSample(72)>> ]

\* the number of int16_t the loader allocates for a sample's data
BufLen(smp) == IF smp.end > smp.start THEN smp.end - smp.start ELSE 0

NoRead == [data |-> NoSample, idx |-> 0]
CtlIdle == [pc |-> 0, ch |-> 0, note |-> 0, vel |-> 0, zones |-> <<>>, k |-> 0, v |-> NoVoice]
AuHead == [v |-> 0, inBlock |-> FALSE, i |-> 0]

RaceInit ==
    /\ font = FontRace
    /\ channels = [ch \in Channels |-> ChannelInit]
    /\ voices = [i \in VoiceIds |-> VoiceInit]
    /\ last = NoCall
    /\ rq = Idle
    /\ lp = Idle
    /\ rc = [ctl |-> CtlIdle, au |-> AuHead, read |-> NoRead]
    /\ received = 0

\* noteOn up to its zone loop: the key is pushed and the zones are resolved
RaceNoteOn(ch, note, vel) ==
    /\ rc.ctl.pc = 0
    /\ Receive
    /\ channels[ch].monoMode = "Poly"
    /\ LET zones == getZonesForNote(font, note, vel, getBank(channels[ch]),
                                    channels[ch].program)
       IN  /\ zones # <<>>
           /\ channels' = [channels EXCEPT ![ch] = pushNote(@, note)]
           /\ rc' = [rc EXCEPT !.ctl = [ pc |-> 1, ch |-> ch, note |-> note, vel |-> vel,
                                         zones |-> zones, k |-> 1, v |-> NoVoice ]]
    /\ last' = NoCall
    /\ UNCHANGED <<font, voices, rq, lp>>

\* the zone loop of noteOn at zone k: allocateVoice, or the end of the loop
RaceAllocate ==
    /\ rc.ctl.pc = 1
    /\ LET c == rc.ctl IN
       IF c.k > Len(c.zones)
       THEN /\ rc' = [rc EXCEPT !.ctl = CtlIdle]
            /\ UNCHANGED voices
       ELSE IF c.zones[c.k].sample = NoSample
       THEN /\ rc' = [rc EXCEPT !.ctl.k = c.k + 1]
            /\ UNCHANGED voices
       ELSE LET a == allocateVoice(voices, c.ch, c.note, c.zones[c.k].exclusiveClass) IN
            /\ voices' = a.vs
            /\ rc' = IF a.v = NoVoice THEN [rc EXCEPT !.ctl.k = c.k + 1]
                     ELSE [rc EXCEPT !.ctl.v = a.v, !.ctl.pc = 2]
    /\ UNCHANGED <<font, channels, last, rq, lp, received>>

\* startNew on the allocated voice: the next group of writes of prepareStart
RacePrepare ==
    /\ rc.ctl.pc >= 2
    /\ rc.ctl.pc < 2 + PrepareSteps
    /\ LET c == rc.ctl IN
       /\ voices' = [voices EXCEPT ![c.v] =
                        PrepareStep(c.pc - 1, @, c.ch, c.note, c.vel, c.zones[c.k],
                                    channels[c.ch], font)]
       /\ rc' = [rc EXCEPT !.ctl.pc = c.pc + 1]
    /\ UNCHANGED <<font, channels, last, rq, lp, received>>

\* startNew after prepareStart: ampEnv.retrigger(END_NOW), then active = true
RaceRetrigger ==
    /\ rc.ctl.pc = 2 + PrepareSteps
    /\ voices' = [voices EXCEPT ![rc.ctl.v].ampEnv = retrigger(@)]
    /\ rc' = [rc EXCEPT !.ctl.pc = 3 + PrepareSteps]
    /\ UNCHANGED <<font, channels, last, rq, lp, received>>

RaceActivate ==
    /\ rc.ctl.pc = 3 + PrepareSteps
    /\ voices' = [voices EXCEPT ![rc.ctl.v].active = TRUE]
    /\ rc' = [rc EXCEPT !.ctl.pc = 1, !.ctl.k = rc.ctl.k + 1, !.ctl.v = NoVoice]
    /\ UNCHANGED <<font, channels, last, rq, lp, received>>

\* the handlers the control task runs between two noteOn calls
RaceNoteOff(ch, note) ==
    /\ rc.ctl.pc = 0
    /\ NoteOff(ch, note)

RaceSoundOff(ch) ==
    /\ rc.ctl.pc = 0
    /\ ControlChange(ch, 120, 0)

RaceUpdateScores ==
    /\ rc.ctl.pc = 0
    /\ UpdateScores

\* the voice loop of renderLRBlock at voice rc.au.v: "if (!voice.active) continue"
AudioNextVoice ==
    /\ ~ rc.au.inBlock
    /\ rc' = IF voices[rc.au.v].active
             THEN [rc EXCEPT !.au.inBlock = TRUE, !.au.i = 0]
             ELSE [rc EXCEPT !.au.v = (rc.au.v + 1) % MAX_VOICES]
    /\ UNCHANGED <<font, channels, voices, last, rq, lp, received>>

\* one nextSample of the block of voice rc.au.v
AudioSample ==
    /\ rc.au.inBlock
    /\ LET v == voices[rc.au.v]
           idx == PhaseIdx(v.phase)
           reads == v.sample # NoSample /\ U32Lt(idx, v.length)
           done == rc.au.i + 1 = DMA_BUFFER_LEN
       IN  /\ voices' = [voices EXCEPT ![rc.au.v] = nextSample(v)]
           /\ rc' = [rc EXCEPT
                       !.read = IF reads THEN [data |-> v.data, idx |-> idx] ELSE NoRead,
                       !.au = IF done
                              THEN [v |-> (rc.au.v + 1) % MAX_VOICES, inBlock |-> FALSE,
                                    i |-> 0]
                              ELSE [@ EXCEPT !.i = rc.au.i + 1]]
    /\ UNCHANGED <<font, channels, last, rq, lp, received>>

RaceNext ==
    \/ \E note \in Notes, vel \in Velocities : RaceNoteOn(0, note, vel)
    \/ RaceAllocate
    \/ RacePrepare
    \/ RaceRetrigger
    \/ RaceActivate
    \/ \E note \in Notes : RaceNoteOff(0, note)
    \/ RaceSoundOff(0)
    \/ RaceUpdateScores
    \/ AudioNextVoice
    \/ AudioSample

SpecRace == RaceInit /\ [][RaceNext]_vars

\* C3: the index of every PCM read of nextSample is within the buffer the voice's
\* data pointer refers to when it is read.
C3_ReadsWithinBuffer ==
    rc.read # NoRead => rc.read.idx < BufLen(font.samples[rc.read.data + 1])

(***************************************************************************)
(* The one-shot playback model (specification SpecPlay): a sample header   *)
(* is drawn, a voice is started on it from a zone without loop (key 48, 60 *)
(* or 72 on root key 60: a phase increment of 0.5, 1 or 2 samples), then   *)
(* nextSample is called on it; lp.calls counts the calls since startNew.   *)
(***************************************************************************)
MaxPlayLen == 6
MaxCalls == 2 * MaxPlayLen + 2
PlayNotes == {48, 60, 72}
PlayHeaders ==
    { [originalPitch |-> 60, start |-> st, end |-> en, startLoop |-> st, endLoop |-> en] :
          st \in {0, 1}, en \in 1..MaxPlayLen }

PlayInit ==
    /\ font \in {LoopFont(smp) : smp \in PlayHeaders}
    /\ channels = [ch \in Channels |-> ChannelInit]
    /\ voices = [i \in VoiceIds |-> VoiceInit]
    /\ last = NoCall
    /\ rq = Idle
    /\ lp = Idle
    /\ rc = Idle
    /\ received = 0

PlayStart(note) ==
    /\ lp = Idle
    /\ lp' = [ phase |-> "playing", calls |-> 0,
               v |-> startNew(VoiceInit, 0, note, 100,
                              [ZoneInit EXCEPT !.sample = 0, !.rootKey = 60],
                              ChannelInit, font) ]
    /\ UNCHANGED <<font, channels, voices, last, rq, rc, received>>

PlaySample ==
    /\ lp # Idle
    /\ lp.calls < MaxCalls
    /\ lp' = [lp EXCEPT !.v = nextSample(@), !.calls = @ + 1]
    /\ UNCHANGED <<font, channels, voices, last, rq, rc, received>>

PlayNext ==
    \/ \E note \in PlayNotes : PlayStart(note)
    \/ PlaySample

SpecPlay == PlayInit /\ [][PlayNext]_vars

\* ceil(a / b) of a >= 0 and b > 0
CeilDiv(a, b) == (a + b - 1) \div b

\* C11 as stated: a NO_LOOP voice is active exactly until
\* ceil(length / effectivePhaseIncrement) calls of nextSample have been made
\* since its start.
C11_InactiveAfterCeilCalls ==
    lp # Idle =>
        (lp.v.active <=> lp.calls < CeilDiv(lp.v.length * PhaseUnit, lp.v.inc))

\* the call count at which the voice ends: the phase starts at 1.0, so it
\* reaches length after ceil((length - 1) / increment) steps, and the first
\* call always ends a voice that it finds at or past the end
CallsToEnd(v) ==
    IF CeilDiv((v.length - 1) * PhaseUnit, v.inc) > 1
    THEN CeilDiv((v.length - 1) * PhaseUnit, v.inc) ELSE 1

\* C11: a NO_LOOP voice with a constant increment whose envelope stays running
\* is active exactly until max(1, ceil((length - 1) / effectivePhaseIncrement))
\* calls of nextSample have been made since its start.
C11_InactiveAfterPhaseReachesLength ==
    lp # Idle =>
        /\ lp.v.loopType = "NO_LOOP"
        /\ lp.v.inc > 0
        /\ (lp.v.active <=> lp.calls < CallsToEnd(lp.v))

\* a voice that ended on a call after the first, with its envelope running
C11_Witness ==
    /\ lp # Idle
    /\ ~ lp.v.active
    /\ isRunning(lp.v.ampEnv)
    /\ lp.calls = CallsToEnd(lp.v)
    /\ lp.calls > 2

(***************************************************************************)
(* The loader model (specification SpecLoad): one SF2Parser object, the    *)
(* file it was constructed on and the heap.  parse() is called once on a   *)
(* parser object (the global one in Synth::begin, a temporary one in       *)
(* Synth::loadSf2File); clear() is called by Synth::loadNextSf2 any number *)
(* of times.                                                               *)
(*                                                                         *)
(* A file is its magic and its list of top-level chunks; a position in the *)
(* file is the index of the chunk whose payload starts there (0: the start *)
(* of the file).  font holds the parser's containers and offsets, lp the   *)
(* file, the heap and the outcome of the last call.  A buffer is a number  *)
(* 1..MaxSamples, NullPtr is nullptr; lp.frees counts the calls of         *)
(* heap_caps_aligned_free on each buffer.                                  *)
(***************************************************************************)
MaxChunks == 3
MaxSamples == 3
MaxChunkSteps == 100
NullPtr == 0
Buffers == 1..MaxSamples

RECURSIVE SeqsUpTo(_, _)
\* the sequences over S of length at most n
SeqsUpTo(S, n) ==
    IF n = 0 THEN {<<>>}
    ELSE LET shorter == SeqsUpTo(S, n - 1)
         IN  shorter \cup {Append(q, x) : q \in shorter, x \in S}

\* a 46-byte shdr record as readSampleHeaders leaves it in samples
Hdr(st, en, rate) ==
    [ originalPitch |-> 60, start |-> st, end |-> en, startLoop |-> st,
      endLoop |-> en, sampleRate |-> rate, data |-> NullPtr, dataSize |-> 0 ]
EOS == Hdr(0, 0, 0)

\* top-level chunks: sub is the FourCC the payload starts with
ListChunk(listType, sub, size) ==
    [id |-> "LIST", listType |-> listType, sub |-> sub, size |-> size]
ChunkKinds ==
    { ListChunk("INFO", "ifil", 16), ListChunk("sdta", "smpl", 16),
      ListChunk("sdta", "sm24", 16), ListChunk("pdta", "phdr", 16),
      ListChunk("JUNK", "", 0),
      [id |-> "data", listType |-> "", sub |-> "", size |-> 16] }

SfFile(riff, sfbk, chunks, shdr) ==
    [ opens |-> TRUE, riff |-> riff, sfbk |-> sfbk, chunks |-> chunks, shdr |-> shdr,
      presets |-> <<PresetOf(0, 0, 0)>>,
      instruments |-> << [ globalGenerators |-> <<>>,
                           zones |-> << <<Gen(SampleID, 0)>> >> ] >> ]

GoodChunks ==
    <<ListChunk("INFO", "ifil", 16), ListChunk("sdta", "smpl", 16),
      ListChunk("pdta", "phdr", 16)>>

\* the files drawn: every chunk layout and magic around one sample, and every
\* list of sample headers (some of zero length) in a well-formed layout
LoadFiles ==
    { SfFile(m[1], m[2], chunks, <<Hdr(0, 2, 44100), EOS>>) :
          m \in {<<"RIFF", "sfbk">>, <<"RIFX", "sfbk">>, <<"RIFF", "WAVE">>},
          chunks \in SeqsUpTo(ChunkKinds, MaxChunks) }
    \cup
    { SfFile("RIFF", "sfbk", GoodChunks, Append(hs, EOS)) :
          hs \in SeqsUpTo({Hdr(0, 2, 44100), Hdr(2, 2, 44100), Hdr(2, 5, 22050)},
                          MaxSamples) }
    \cup
    { [SfFile("RIFF", "sfbk", GoodChunks, <<Hdr(0, 2, 44100), EOS>>) EXCEPT
           !.opens = FALSE] }

EmptyStore ==
    [ presets |-> <<>>, instruments |-> <<>>, samples |-> <<>>, sampleMap |-> {},
      sdtaOffset |-> 0, pdtaOffset |-> 0 ]

\* the four bytes read at a position of the file
FourCCAt(file, off) ==
    IF off = 0 THEN file.riff ELSE file.chunks[off].sub

RECURSIVE ScanChunks(_, _, _, _)
\* the while loop of parseHeaderChunks from chunk k on
ScanChunks(file, k, steps, sdta) ==
    IF k > Len(file.chunks) \/ steps >= MaxChunkSteps
    THEN [ok |-> FALSE, sdtaOffset |-> sdta, pdtaOffset |-> 0]
    ELSE LET c == file.chunks[k] IN
         IF c.id = "LIST" /\ c.listType = "sdta"
         THEN ScanChunks(file, k + 1, steps + 1, k)
         ELSE IF c.id = "LIST" /\ c.listType = "pdta"
         THEN [ok |-> TRUE, sdtaOffset |-> sdta, pdtaOffset |-> k]
         ELSE IF c.id = "LIST" /\ c.size < 4
         THEN [ok |-> FALSE, sdtaOffset |-> sdta, pdtaOffset |-> 0]
         ELSE ScanChunks(file, k + 1, steps + 1, sdta)

parseHeaderChunks(st, file) ==
    IF file.riff # "RIFF" \/ file.sfbk # "sfbk"
    THEN [ok |-> FALSE, store |-> st]
    ELSE LET r == ScanChunks(file, 1, 0, st.sdtaOffset)
         IN  [ ok |-> r.ok,
               store |-> [st EXCEPT !.sdtaOffset = r.sdtaOffset,
                                    !.pdtaOffset = IF r.ok THEN r.pdtaOffset ELSE @] ]

\* a parseSDTA that accepts every file
parseSDTA_anything(st, file) == TRUE

parseSDTA(st, file) == FourCCAt(file, st.sdtaOffset) = "smpl"

\* readSampleHeaders: the records that are not the end-of-samples record
readSampleHeaders(st, shdr) ==
    [ st EXCEPT !.samples = SelectSeq(shdr, LAMBDA h : h # EOS),
                !.sampleMap = {i \in 1..Len(shdr) : shdr[i] # EOS} ]

\* parsePDTA never fails: readSampleHeaders returns true for every chunk
parsePDTA(st, file) ==
    [ readSampleHeaders(st, file.shdr) EXCEPT
          !.presets = file.presets, !.instruments = file.instruments ]

\* heap_caps_aligned_alloc that succeeds: the lowest buffer never handed out
NewBuffer(heap) == CHOOSE b \in Buffers : heap[b] = "unused" /\
                                          \A c \in Buffers : heap[c] = "unused" => b <= c

RECURSIVE LoadLoop(_, _, _, _, _)
\* the for loop of loadSampleDataToMemory from sample i on; fallback is the
\* index of the first loaded sample (0: nullptr), allocs[i] tells whether the
\* allocation made for sample i succeeds
LoadLoop(i, samples, heap, fallback, allocs) ==
    IF i > Len(samples) THEN [ok |-> TRUE, samples |-> samples, heap |-> heap]
    ELSE LET s == samples[i]
             length == IF s.end > s.start THEN s.end - s.start ELSE 0
         IN  IF length = 0 THEN LoadLoop(i + 1, samples, heap, fallback, allocs)
             ELSE IF ~ allocs[i]
             THEN IF fallback # 0
                  THEN LET fb == samples[fallback]
                       IN  LoadLoop(i + 1,
                                    [samples EXCEPT ![i] =
                                        [ s EXCEPT !.data = fb.data,
                                                   !.dataSize = fb.dataSize,
                                                   !.start = fb.start, !.end = fb.end,
                                                   !.startLoop = fb.startLoop,
                                                   !.endLoop = fb.endLoop,
                                                   !.sampleRate = fb.sampleRate,
                                                   !.originalPitch = fb.originalPitch ]],
                                    heap, fallback, allocs)
                  ELSE [ok |-> FALSE, samples |-> samples, heap |-> heap]
             ELSE LET b == NewBuffer(heap)
                  IN  LoadLoop(i + 1,
                               [samples EXCEPT ![i] =
                                   [s EXCEPT !.data = b, !.dataSize = length * 2]],
                               [heap EXCEPT ![b] = "live"],
                               IF fallback = 0 THEN i ELSE fallback, allocs)

loadSampleDataToMemory(st, file, heap, allocs) ==
    IF st.sdtaOffset = 0 \/ st.samples = <<>>
    THEN [ok |-> FALSE, store |-> st, heap |-> heap]
    ELSE IF FourCCAt(file, st.sdtaOffset) # "smpl"
    THEN [ok |-> FALSE, store |-> st, heap |-> heap]
    ELSE LET r == LoadLoop(1, st.samples, heap, 0, allocs)
         IN  [ok |-> r.ok, store |-> [st EXCEPT !.samples = r.samples], heap |-> r.heap]

RECURSIVE FreeLoop(_, _, _, _)
\* the for loop of clear(): heap_caps_aligned_free(sample.data) of every sample
\* whose data is not nullptr
FreeLoop(i, samples, heap, frees) ==
    IF i > Len(samples) THEN [heap |-> heap, frees |-> frees]
    ELSE IF samples[i].data = NullPtr THEN FreeLoop(i + 1, samples, heap, frees)
    ELSE FreeLoop(i + 1, samples,
                  [heap EXCEPT ![samples[i].data] = "freed"],
                  [frees EXCEPT ![samples[i].data] = @ + 1])

\* SF2Parser::clear(): the free loop, then the containers are emptied; the
\* chunk offsets are left as they are
clear(st, heap, frees) ==
    LET r == FreeLoop(1, st.samples, heap, frees)
    IN  [ store |-> [ st EXCEPT !.presets = <<>>, !.instruments = <<>>,
                                !.samples = <<>>, !.sampleMap = {} ],
          heap |-> r.heap, frees |-> r.frees ]

\* parse() after its clear(); stage names the last stage entered.  A failed
\* loadSampleDataToMemory is logged and parse() goes on to return true.
ParseStages(st, file, heap, allocs) ==
    IF ~ file.opens
    THEN [ret |-> FALSE, store |-> st, heap |-> heap, stage |-> "open", loadOk |-> FALSE]
    ELSE LET h == parseHeaderChunks(st, file) IN
         IF ~ h.ok
         THEN [ ret |-> FALSE, store |-> h.store, heap |-> heap, stage |-> "header",
                loadOk |-> FALSE ]
         ELSE IF ~ parseSDTA(h.store, file)
         THEN [ ret |-> FALSE, store |-> h.store, heap |-> heap, stage |-> "sdta",
                loadOk |-> FALSE ]
         ELSE LET l == loadSampleDataToMemory(parsePDTA(h.store, file), file, heap, allocs)
              IN  [ ret |-> TRUE, store |-> l.store, heap |-> l.heap, stage |-> "load",
                    loadOk |-> l.ok ]

parse(st, file, heap, frees, allocs) ==
    LET c == clear(st, heap, frees)
        r == ParseStages(c.store, file, c.heap, allocs)
    IN  [ ret |-> r.ret, store |-> r.store, heap |-> r.heap, frees |-> c.frees,
          stage |-> r.stage, loadOk |-> r.loadOk ]

RECURSIVE FreeCalls(_, _)
\* the calls of heap_caps_aligned_free counted in frees[1..n]
FreeCalls(frees, n) == IF n = 0 THEN 0 ELSE frees[n] + FreeCalls(frees, n - 1)

LoadInit ==
    /\ font = EmptyStore
    /\ channels = [ch \in Channels |-> ChannelInit]
    /\ voices = [i \in VoiceIds |-> VoiceInit]
    /\ last = NoCall
    /\ rq = Idle
    /\ lp \in { [ file |-> f, heap |-> [b \in Buffers |-> "unused"],
                  frees |-> [b \in Buffers |-> 0], parsed |-> FALSE,
                  op |-> "none", ret |-> FALSE, stage |-> "none",
                  loadOk |-> FALSE, freed |-> 0,
                  allocs |-> [i \in 1..MaxSamples |-> FALSE],
                  hdrs |-> <<>>, before |-> EmptyStore, crashed |-> FALSE ] :
                f \in LoadFiles }
    /\ rc = Idle
    /\ received = 0

\* SF2Parser::parse() on the file, with the allocation outcomes drawn
Parse(allocs) ==
    /\ ~ lp.parsed
    /\ ~ lp.crashed
    /\ \E r \in {parse(font, lp.file, lp.heap, lp.frees, allocs)} :
          /\ font' = r.store
          /\ lp' = [ lp EXCEPT !.heap = r.heap, !.frees = r.frees, !.parsed = TRUE,
                               !.op = "parse", !.ret = r.ret, !.stage = r.stage,
                               !.loadOk = r.loadOk,
                               !.freed = FreeCalls(r.frees, MaxSamples)
                                         - FreeCalls(lp.frees, MaxSamples),
                               !.allocs = allocs,
                               !.hdrs = SelectSeq(lp.file.shdr, LAMBDA h : h # EOS),
                               !.before = font ]
    /\ UNCHANGED <<channels, voices, last, rq, rc, received>>

\* SF2Parser::clear(); freeing a buffer a second time is undefined: the heap
\* either takes it or the firmware stops
Clear ==
    /\ ~ lp.crashed
    /\ \E r \in {clear(font, lp.heap, lp.frees)} :
          /\ font' = r.store
          /\ \E crash \in (IF \E b \in Buffers : r.frees[b] > 1
                           THEN BOOLEAN ELSE {FALSE}) :
                lp' = [ lp EXCEPT !.heap = r.heap, !.frees = r.frees, !.op = "clear",
                                  !.freed = FreeCalls(r.frees, MaxSamples)
                                            - FreeCalls(lp.frees, MaxSamples),
                                  !.before = font, !.crashed = crash ]
    /\ UNCHANGED <<channels, voices, last, rq, rc, received>>

LoadNext ==
    \/ \E allocs \in [1..MaxSamples -> BOOLEAN] : Parse(allocs)
    \/ Clear

SpecLoad == LoadInit /\ [][LoadNext]_vars

\* C12: after clear() every buffer the load allocated has been freed, none of
\* them more than once, and all containers are empty; a clear() of an empty
\* store (a second clear(), a clear() before any parse()) frees nothing.
C12_ClearReleasesOnce ==
    lp.op = "clear" =>
        /\ font.samples = <<>> /\ font.presets = <<>>
        /\ font.instruments = <<>> /\ font.sampleMap = {}
        /\ \A b \in Buffers : lp.heap[b] # "live"
        /\ \A b \in Buffers : lp.frees[b] <= 1
        /\ (lp.before.samples = <<>> => lp.freed = 0)

\* the sample headers as read, before any sample data is loaded
Nonzero(h) == h.end > h.start
Succeeds(i) == Nonzero(lp.hdrs[i]) /\ lp.allocs[i]
FailsAt(i) == Nonzero(lp.hdrs[i]) /\ ~ lp.allocs[i]
\* an allocation fails when no sample has been loaded yet
FailsWithNoneLoaded ==
    \E i \in 1..Len(lp.hdrs) : FailsAt(i) /\ \A j \in 1..(i - 1) : ~ Succeeds(j)
SameSampleAs(s, t) ==
    /\ s.data = t.data /\ s.dataSize = t.dataSize
    /\ s.start = t.start /\ s.end = t.end
    /\ s.startLoop = t.startLoop /\ s.endLoop = t.endLoop
    /\ s.sampleRate = t.sampleRate /\ s.originalPitch = t.originalPitch

\* the part of C13 about a failure after a success: the sample takes the buffer
\* and metadata of a sample loaded before it and the later samples are loaded
C13_AliasAndContinue ==
    (lp.op = "parse" /\ lp.stage = "load" /\ ~ FailsWithNoneLoaded) =>
        \A i \in 1..Len(lp.hdrs) :
            /\ (FailsAt(i) /\ \E j \in 1..(i - 1) : Succeeds(j)) =>
                   \E j \in 1..(i - 1) :
                       /\ Succeeds(j)
                       /\ font.samples[j].data # NullPtr
                       /\ SameSampleAs(font.samples[i], font.samples[j])
            /\ Succeeds(i) =>
                   /\ font.samples[i].data # NullPtr
                   /\ \A j \in 1..(i - 1) : font.samples[j].data # font.samples[i].data

\* the part of C13 about failure: parse() fails only when no sample was loaded
C13_FailsOnlyWithNoneLoaded ==
    (lp.op = "parse" /\ ~ lp.ret) =>
        \A i \in 1..Len(font.samples) : font.samples[i].data = NullPtr

\* C13: an allocation failure after a loaded sample aliases a loaded sample and
\* loading continues; parse() fails only when no sample was loaded, and it
\* returns false when an allocation fails with no sample loaded.
C13_LoadFailureReported ==
    /\ C13_AliasAndContinue
    /\ C13_FailsOnlyWithNoneLoaded
    /\ (lp.op = "parse" /\ lp.stage = "load" /\ FailsWithNoneLoaded) => ~ lp.ret

MagicOk(file) == file.riff = "RIFF" /\ file.sfbk = "sfbk"
IsList(file, k, listType) ==
    file.chunks[k].id = "LIST" /\ file.chunks[k].listType = listType
HasList(file, listType) == \E k \in 1..Len(file.chunks) : IsList(file, k, listType)

\* C14 as stated: parse() returns false on bad magic and when the LIST sdta or
\* the LIST pdta chunk is missing, and true for a file with valid magic, both
\* LIST chunks and a smpl sub-chunk.
C14_ParseResultByChunks ==
    (lp.op = "parse" /\ lp.file.opens) =>
        /\ ~ MagicOk(lp.file) => ~ lp.ret
        /\ ~ HasList(lp.file, "sdta") => ~ lp.ret
        /\ ~ HasList(lp.file, "pdta") => ~ lp.ret
        /\ ( /\ MagicOk(lp.file)
             /\ HasList(lp.file, "pdta")
             /\ \E k \in 1..Len(lp.file.chunks) :
                    IsList(lp.file, k, "sdta") /\ lp.file.chunks[k].sub = "smpl" )
           => lp.ret

\* the scan reaches the LIST pdta chunk at p: no other pdta and no LIST chunk
\* of a size below 4 comes before it, within the first 100 chunks
ReachesPdta(file, p) ==
    /\ p <= MaxChunkSteps
    /\ IsList(file, p, "pdta")
    /\ \A k \in 1..(p - 1) :
           /\ ~ IsList(file, k, "pdta")
           /\ IsList(file, k, "sdta") \/ file.chunks[k].id # "LIST"
                                      \/ file.chunks[k].size >= 4

\* the last LIST sdta chunk before p starts with a smpl sub-chunk
SmplBefore(file, p) ==
    \E k \in 1..(p - 1) :
        /\ IsList(file, k, "sdta")
        /\ file.chunks[k].sub = "smpl"
        /\ \A j \in (k + 1)..(p - 1) : ~ IsList(file, j, "sdta")

\* C14: parse() returns false on bad magic and when the LIST sdta or the LIST
\* pdta chunk is missing; it returns true exactly for a file that opens, has
\* valid magic and whose first LIST pdta chunk is reached by the scan after a
\* LIST sdta chunk, the last of them starting with a smpl sub-chunk.
C14_ParseResultByChunkOrder ==
    lp.op = "parse" =>
        /\ (lp.file.opens /\ ~ MagicOk(lp.file)) => ~ lp.ret
        /\ (lp.file.opens /\ ~ HasList(lp.file, "sdta")) => ~ lp.ret
        /\ (lp.file.opens /\ ~ HasList(lp.file, "pdta")) => ~ lp.ret
        /\ lp.ret <=> /\ lp.file.opens
                      /\ MagicOk(lp.file)
                      /\ \E p \in 1..Len(lp.file.chunks) :
                             ReachesPdta(lp.file, p) /\ SmplBefore(lp.file, p)

\* a file with an INFO list, sample data and preset data was parsed
C14_Witness ==
    /\ lp.op = "parse"
    /\ lp.ret
    /\ HasList(lp.file, "INFO")
    /\ Len(lp.file.chunks) = MaxChunks

(***************************************************************************)
(* The generator decoder (specification SpecDecode): decodeGeneratorAmount *)
(* is applied once to a generator of a drawn operator and a drawn 16-bit   *)
(* amount.  The amount union is kept as its 16 bits (little-endian: lo is  *)
(* the low byte); each case of the switch writes them through the member   *)
(* it assigns.                                                             *)
(***************************************************************************)
GeneratorOperators ==
    { StartLoopAddrOffset, EndLoopAddrOffset, ChorusEffectsSend, ReverbEffectsSend,
      Pan, Instrument, KeyRange, VelRange, StartLoopAddrCoarseOffset,
      EndLoopAddrCoarseOffset, CoarseTune, SampleID, SampleModes, ExclusiveClass,
      OverridingRootKey }
\* the raw amounts drawn: both bytes range over the ends of the byte, the sign
\* bit and some keys
AmountBytes == {0, 1, 36, 96, 127, 128, 200, 255}
RawAmounts == {hi * 256 + lo : hi \in AmountBytes, lo \in AmountBytes}

\* static_cast<int16_t>(raw)
Int16(raw) == IF raw >= 32768 THEN raw - 65536 ELSE raw

\* a decoder that takes the high byte of a range for lo and the low byte for hi
decodeGeneratorAmount_swapped(gen, raw) ==
    IF gen.oper \in {KeyRange, VelRange}
    THEN [gen EXCEPT !.raw = RangeRaw((raw \div 256) % 256, raw % 256)]
    ELSE [gen EXCEPT !.raw = raw]

decodeGeneratorAmount(gen, raw) ==
    CASE gen.oper \in {Instrument, SampleID, SampleModes, ExclusiveClass,
                       OverridingRootKey} ->
             [gen EXCEPT !.raw = raw]
      [] gen.oper \in {KeyRange, VelRange} ->
             [gen EXCEPT !.raw = RangeRaw(raw % 256, (raw \div 256) % 256)]
      [] OTHER ->
             [gen EXCEPT !.raw = Int16(raw) % 65536]

DecodeInit ==
    /\ font = FontGM
    /\ channels = [ch \in Channels |-> ChannelInit]
    /\ voices = [i \in VoiceIds |-> VoiceInit]
    /\ last = NoCall
    /\ rq = Idle
    /\ lp = Idle
    /\ rc = Idle
    /\ received = 0

Decode(op, raw) ==
    /\ rq' = [ phase |-> "decoded", raw |-> raw,
               gen |-> decodeGeneratorAmount(Gen(op, 0), raw) ]
    /\ UNCHANGED <<font, channels, voices, last, lp, rc, received>>

DecodeNext ==
    /\ rq = Idle
    /\ \E op \in GeneratorOperators, raw \in RawAmounts : Decode(op, raw)

SpecDecode == DecodeInit /\ [][DecodeNext]_vars

\* C15: the decoded amount reads as the unsigned raw value for Instrument,
\* SampleID, SampleModes, ExclusiveClass and OverridingRootKey, as
\* lo = raw & 0xFF and hi = (raw >> 8) & 0xFF for KeyRange and VelRange, and as
\* the two's-complement 16-bit value of raw for every other operator.
C15_DecodedAmount ==
    rq.phase = "decoded" =>
        CASE rq.gen.oper \in {Instrument, SampleID, SampleModes, ExclusiveClass,
                              OverridingRootKey} ->
                 uAmount(rq.gen) = rq.raw
          [] rq.gen.oper \in {KeyRange, VelRange} ->
                 /\ rangeLo(rq.gen) = rq.raw % 256
                 /\ rangeHi(rq.gen) = (rq.raw \div 256) % 256
          [] OTHER ->
                 /\ sAmount(rq.gen) \in -32768..32767
                 /\ (sAmount(rq.gen) - rq.raw) % 65536 = 0

\* a key range whose two bytes differ (keys 36 to 96) was decoded
C15_Witness ==
    /\ rq.phase = "decoded"
    /\ rq.gen.oper = KeyRange
    /\ rangeLo(rq.gen) = 36
    /\ rangeHi(rq.gen) = 96

(***************************************************************************)
(* The note-on model (specification SpecSilent): a font whose program 1    *)
(* has a zone for key 72 only, so that key 60 resolves to no zone on a     *)
(* channel set to program 1.  Note-on messages arrive on channel 0, with   *)
(* velocity 0 as well, and for keys that are already down.                 *)
(***************************************************************************)
SparseInst ==
    [ globalGenerators |-> <<Gen(SampleModes, 1)>>,
      zones |-> << <<Gen(KeyRange, RangeRaw(72, 72)), Gen(SampleID, 1)>> >> ]

FontSparse ==
    [ presets |-> <<PresetOf(0, 0, 0), PresetOf(0, 1, 1)>>,
      instruments |-> <<PianoInst, SparseInst>>,
      samples |-> FontGM.samples ]

SilentInit ==
    /\ font = FontSparse
    /\ channels = [ch \in Channels |-> ChannelInit]
    /\ voices = [i \in VoiceIds |-> VoiceInit]
    /\ last = NoCall
    /\ rq = Idle
    /\ lp = Idle
    /\ rc = Idle
    /\ received = 0

\* handleNoteOn: a note-on message with any velocity, for any key
NoteOnMessage(ch, note, vel) ==
    /\ Receive
    /\ \E r \in {noteOn(voices, channels, ch, note, vel, font)} :
       /\ voices' = r.vs
       /\ channels' = r.chs
       /\ last' = [ Last("noteOn", ch, note, vel) EXCEPT
                      !.started = r.started, !.nullAlloc = r.nullAlloc,
                      !.zones = r.zones,
                      !.poolFull = \A i \in VoiceIds : voices[i].active ]
    /\ UNCHANGED <<font, rq, lp, rc>>

SilentChannels == {0}
SilentVelocities == {0, 100}
SilentCCInputs == {<<64, 127>>, <<64, 0>>, <<126, 0>>, <<126, 1>>, <<127, 0>>}

SilentNext ==
    \/ \E ch \in SilentChannels, note \in Notes, vel \in SilentVelocities :
           NoteOnMessage(ch, note, vel)
    \/ \E ch \in SilentChannels, cv \in SilentCCInputs : ControlChange(ch, cv[1], cv[2])
    \/ \E ch \in SilentChannels, program \in Programs : ProgramChange(ch, program)
    \/ Render

SpecSilent == SilentInit /\ [][SilentNext]_vars

\* the step is a noteOn(ch, note, vel) whose note and velocity resolve to no
\* zone under the channel's bank and program
NoZoneNoteOn(ch, note, vel) ==
    /\ received' = received + 1
    /\ last'.op = "noteOn" /\ last'.ch = ch /\ last'.a = note /\ last'.b = vel
    /\ getZonesForNote(font, note, vel, getBank(channels[ch]), channels[ch].program) = <<>>

\* C16 as stated: a noteOn that resolves to no zone changes no voice and no
\* note stack, whatever its velocity and the channel's mode.
C16_NoZoneNoteOnChangesNothing ==
    [][ \A ch \in SilentChannels, note \in Notes, vel \in SilentVelocities :
            NoZoneNoteOn(ch, note, vel) =>
                /\ voices' = voices
                /\ channels'[ch].noteStack = channels[ch].noteStack ]_vars

\* C16: a noteOn with a velocity above 0 that resolves to no zone changes no
\* voice and no note stack in every mono/poly mode (a noteOn with velocity 0
\* is passed to noteOff before any zone is resolved).
C16_NoZoneNoteOnWithVelocityChangesNothing ==
    [][ \A ch \in SilentChannels, note \in Notes, vel \in SilentVelocities \ {0} :
            NoZoneNoteOn(ch, note, vel) =>
                /\ voices' = voices
                /\ channels' = channels ]_vars

\* a noteOn with velocity that found no zone has returned on a channel in a mono
\* mode that has a held, active voice
C16_Witness ==
    /\ last.op = "noteOn"
    /\ last.b > 0
    /\ getZonesForNote(font, last.a, last.b, getBank(channels[last.ch]),
                       channels[last.ch].program) = <<>>
    /\ channels[last.ch].monoMode = "MonoLegato"
    /\ \E i \in VoiceIds :
           voices[i].active /\ voices[i].channel = last.ch /\ voices[i].noteHeld

(***************************************************************************)
(* The hard-mute model (specification SpecKill): the scheduler model with  *)
(* the CC 120 message recorded in last, and with Synth::loadSf2File, the   *)
(* caller of Synth::reset(), reloading the font.                           *)
(***************************************************************************)
\* Synth::reset(): every channel is reset and every voice is killed
reset(vs, chs) ==
    [ vs |-> [i \in VoiceIds |-> kill(vs[i])],
      chs |-> [ch \in DOMAIN chs |-> ChannelReset(chs[ch])] ]

\* controlChange(ch, 120, 0); last.sustained is the set of voices it finds
\* active on the channel
SoundOffMessage(ch) ==
    /\ Receive
    /\ \E r \in {controlChange(voices, channels, ch, 120, 0, font)} :
       /\ voices' = r.vs
       /\ channels' = r.chs
    /\ last' = [ Last("controlChange", ch, 120, 0) EXCEPT
                   !.sustained = {i \in VoiceIds : voices[i].active /\ voices[i].channel = ch} ]
    /\ UNCHANGED <<font, rq, lp, rc>>

\* Synth::loadSf2File on the same file: the parser is replaced, then reset()
\* and GMReset() run; last.sustained is the set of voices reset() finds active,
\* last.poolFull tells whether reset() has left every voice inactive
LoadSf2File ==
    /\ \E r \in {reset(voices, channels)} :
          \E g \in {GMReset(r.vs, r.chs, font)} :
             /\ voices' = g.vs
             /\ channels' = g.chs
             /\ last' = [ Last("reset", 0, 0, 0) EXCEPT
                            !.sustained = {i \in VoiceIds : voices[i].active},
                            !.poolFull = \A i \in VoiceIds : ~ r.vs[i].active ]
    /\ UNCHANGED <<font, rq, lp, rc, received>>

KillCCInputs == {<<64, 127>>, <<64, 0>>, <<126, 0>>, <<126, 1>>, <<127, 0>>}

KillNext ==
    \/ \E ch \in Channels, note \in Notes, vel \in Velocities : NoteOn(ch, note, vel)
    \/ \E ch \in Channels, note \in Notes : NoteOff(ch, note)
    \/ \E ch \in Channels, cv \in KillCCInputs : ControlChange(ch, cv[1], cv[2])
    \/ \E ch \in Channels : SoundOffMessage(ch)
    \/ LoadSf2File
    \/ UpdateScores
    \/ Render

SpecKill == Init /\ [][KillNext]_vars

\* C17: every voice killed by soundOff(ch) or by reset() is inactive with an
\* idle envelope and noteHeld false when the call returns, whatever the sustain
\* pedal; after soundOff(ch) no voice on ch is active, and after reset() no
\* voice is active.
C17_KillMutesAtOnce ==
    /\ (last.op = "controlChange" /\ last.a = 120) =>
           /\ \A i \in last.sustained :
                  /\ ~ voices[i].active
                  /\ isIdle(voices[i].ampEnv)
                  /\ ~ voices[i].noteHeld
           /\ \A i \in VoiceIds : ~ (voices[i].active /\ voices[i].channel = last.ch)
    /\ last.op = "reset" =>
           /\ last.poolFull
           /\ \A i \in VoiceIds :
                  ~ voices[i].active /\ isIdle(voices[i].ampEnv) /\ ~ voices[i].noteHeld

\* soundOff has killed a held voice on a channel whose sustain pedal is down
C17_Witness ==
    /\ last.op = "controlChange" /\ last.a = 120
    /\ channels[last.ch].sustainPedal
    /\ Cardinality(last.sustained) >= 2
    /\ \E i \in VoiceIds : voices[i].active

(***************************************************************************)
(* The keyboard model (specification SpecKeys): the scheduler model with   *)
(* the player's keys kept in rq.down, the set of (channel, key) pairs that *)
(* are physically down: a key goes down with a noteOn and up with a        *)
(* noteOff, whatever the channel's note stack holds after a mode switch or *)
(* a controller reset.                                                     *)
(***************************************************************************)
KeysInit ==
    /\ font = FontGM
    /\ channels = [ch \in Channels |-> ChannelInit]
    /\ voices = [i \in VoiceIds |-> VoiceInit]
    /\ last = NoCall
    /\ rq = [phase |-> "keys", down |-> {}]
    /\ lp = Idle
    /\ rc = Idle
    /\ received = 0

\* the player presses a key that is up: handleNoteOn
KeyDown(ch, note, vel) ==
    /\ Receive
    /\ <<ch, note>> \notin rq.down
    /\ Cardinality({k \in rq.down : k[1] = ch}) < MaxHeld
    /\ \E r \in {noteOn(voices, channels, ch, note, vel, font)} :
       /\ voices' = r.vs
       /\ channels' = r.chs
    /\ last' = Last("noteOn", ch, note, vel)
    /\ rq' = [rq EXCEPT !.down = @ \cup {<<ch, note>>}]
    /\ UNCHANGED <<font, lp, rc>>

\* the player lets go of a key that is down: handleNoteOff
KeyUp(ch, note) ==
    /\ Receive
    /\ <<ch, note>> \in rq.down
    /\ \E r \in {noteOff(voices, channels, ch, note, font)} :
       /\ voices' = r.vs
       /\ channels' = r.chs
    /\ last' = Last("noteOff", ch, note, 0)
    /\ rq' = [rq EXCEPT !.down = @ \ {<<ch, note>>}]
    /\ UNCHANGED <<font, lp, rc>>

KeysNext ==
    \/ \E ch \in Channels, note \in Notes, vel \in Velocities : KeyDown(ch, note, vel)
    \/ \E ch \in Channels, note \in Notes : KeyUp(ch, note)
    \/ \E ch \in Channels, cv \in CCInputs : ControlChange(ch, cv[1], cv[2])
    \/ UpdateScores
    \/ Render

SpecKeys == KeysInit /\ [][KeysNext]_vars

\* every key of the channel is up and its sustain-pedal flag is off
AllReleased(ch) ==
    /\ \A k \in rq.down : k[1] # ch
    /\ ~ channels[ch].sustainPedal

\* C18: once every key of a channel is up and its pedal flag is off, every
\* active voice of the channel is in a release segment (or its envelope is
\* already idle), so that rendering ends it.
C18_ReleasedKeysReleaseVoices ==
    \A ch \in Channels :
        AllReleased(ch) =>
            \A i \in VoiceIds :
                (voices[i].active /\ voices[i].channel = ch) =>
                    voices[i].ampEnv.mode \in ReleaseSegments \cup {"IDLE"}

(***************************************************************************)
(* The two tasks with nextSample in two steps (specification SpecStart):   *)
(* the control task as in the task model above; the audio task evaluates   *)
(* one nextSample on the voice as it finds it and writes every field but   *)
(* active (AudioEvaluate), and when that evaluation ended the voice the    *)
(* store "active = false" is a step of its own (AudioClearActive), so that *)
(* writes of the control task fall between the two.  rc.au.pending tells   *)
(* that the store is due.                                                  *)
(***************************************************************************)
StartInit ==
    /\ font = FontRace
    /\ channels = [ch \in Channels |-> ChannelInit]
    /\ voices = [i \in VoiceIds |-> VoiceInit]
    /\ last = NoCall
    /\ rq = Idle
    /\ lp = Idle
    /\ rc = [ ctl |-> CtlIdle,
              au |-> [v |-> 0, inBlock |-> FALSE, i |-> 0, pending |-> FALSE],
              read |-> NoRead ]
    /\ received = 0

\* whether one nextSample on v ends the voice: !sample, idx >= length, the
\* sample ran out, or the envelope is idle after process()
EndsVoice(v) == ~ nextSample([v EXCEPT !.active = TRUE]).active

\* the sample loop of renderLRBlock goes on to its next iteration
AudioAdvance(au) ==
    IF au.i + 1 = DMA_BUFFER_LEN
    THEN [v |-> (au.v + 1) % MAX_VOICES, inBlock |-> FALSE, i |-> 0, pending |-> FALSE]
    ELSE [au EXCEPT !.i = au.i + 1, !.pending = FALSE]

\* nextSample of voice rc.au.v up to its store to active
AudioEvaluate ==
    /\ rc.au.inBlock
    /\ ~ rc.au.pending
    /\ \E w \in {nextSample([voices[rc.au.v] EXCEPT !.active = TRUE])} :
          /\ voices' = [voices EXCEPT ![rc.au.v] = [w EXCEPT !.active = voices[rc.au.v].active]]
          /\ rc' = [rc EXCEPT !.au = IF w.active THEN AudioAdvance(@)
                                      ELSE [@ EXCEPT !.pending = TRUE]]
    /\ UNCHANGED <<font, channels, last, rq, lp, received>>

\* the store "active = false" of the nextSample evaluated before
AudioClearActive ==
    /\ rc.au.inBlock
    /\ rc.au.pending
    /\ voices' = [voices EXCEPT ![rc.au.v].active = FALSE]
    /\ rc' = [rc EXCEPT !.au = AudioAdvance(@)]
    /\ UNCHANGED <<font, channels, last, rq, lp, received>>

StartNext ==
    \/ \E note \in Notes, vel \in Velocities : RaceNoteOn(0, note, vel)
    \/ RaceAllocate
    \/ RacePrepare
    \/ RaceRetrigger
    \/ RaceActivate
    \/ \E note \in Notes : RaceNoteOff(0, note)
    \/ AudioNextVoice
    \/ AudioEvaluate
    \/ AudioClearActive

SpecStart == StartInit /\ [][StartNext]_vars

\* C19: when the audio task clears the active flag of a voice that is active
\* and not in the middle of startNew, the voice's own state ends it: its
\* envelope is idle or its sample has ended.
C19_ClearedOnlyByOwnState ==
    [][ ( /\ AudioClearActive
          /\ voices[rc.au.v].active
          /\ rc.ctl.v # rc.au.v )
        => EndsVoice(voices[rc.au.v]) ]_vars

(***************************************************************************)
(* Replacing the SoundFont while the synth runs (specification SpecSwap).  *)
(* The GUI task calls loadNextSf2 or loadSf2File; the control task handles *)
(* notes and the audio task renders between its steps.  A parser's sample  *)
(* headers and PCM buffers are named by the generation of the parser that  *)
(* loaded them.  lp.pc is the position of the GUI task, lp.gen the         *)
(* generation of Synth::parser, lp.headers and lp.buffers the generations  *)
(* whose SampleHeader vector exists and whose PCM buffers are allocated,   *)
(* lp.of[i] the generation voice i's sample and data pointers point into,  *)
(* lp.loads the calls made, lp.readFreed whether the audio task has read   *)
(* a buffer that was freed.                                                *)
(***************************************************************************)
MaxLoads == 2
NoFont == [presets |-> <<>>, instruments |-> <<>>, samples |-> <<>>]

SwapInit ==
    /\ font = FontGM
    /\ channels = [ch \in Channels |-> ChannelInit]
    /\ voices = [i \in VoiceIds |-> VoiceInit]
    /\ last = NoCall
    /\ rq = Idle
    /\ lp = [ phase |-> "swap", pc |-> "idle", gen |-> 0, loads |-> 0,
              headers |-> {0}, buffers |-> {0},
              of |-> [i \in VoiceIds |-> 0], readFreed |-> FALSE ]
    /\ rc = Idle
    /\ received = 0

\* noteOn on the control task; the voices it starts point into the parser's
\* samples
SwapNoteOn(ch, note, vel) ==
    /\ Receive
    /\ Len(channels[ch].noteStack) < MaxHeld
    /\ \A k \in 1..Len(channels[ch].noteStack) : channels[ch].noteStack[k] # note
    /\ \E r \in {noteOn(voices, channels, ch, note, vel, font)} :
       /\ voices' = r.vs
       /\ channels' = r.chs
       /\ last' = [ Last("noteOn", ch, note, vel) EXCEPT
                      !.started = r.started, !.nullAlloc = r.nullAlloc,
                      !.zones = r.zones,
                      !.poolFull = \A i \in VoiceIds : voices[i].active ]
       /\ lp' = [lp EXCEPT !.of = [i \in VoiceIds |->
                                     IF \E k \in 1..Len(r.started) : r.started[k] = i
                                     THEN lp.gen ELSE @[i]]]
    /\ UNCHANGED <<font, rq, rc>>

\* renderLRBlock on the audio task; nextSample reads data[] of every active
\* voice
SwapRender ==
    /\ voices' = renderLRBlock(voices)
    /\ last' = NoCall
    /\ lp' = [lp EXCEPT !.readFreed =
                 @ \/ \E i \in VoiceIds : voices[i].active /\ lp.of[i] \notin lp.buffers]
    /\ UNCHANGED <<font, channels, rq, rc, received>>

\* loadNextSf2 up to its call of loadSf2File: parser.clear() frees the PCM
\* buffers and empties the containers
LoadNextSf2Clear ==
    /\ lp.pc = "idle"
    /\ lp.loads < MaxLoads
    /\ font' = NoFont
    /\ lp' = [lp EXCEPT !.pc = "cleared", !.loads = @ + 1,
                        !.headers = @ \ {lp.gen}, !.buffers = @ \ {lp.gen}]
    /\ last' = NoCall
    /\ UNCHANGED <<channels, voices, rq, rc, received>>

\* loadSf2File, called by loadNextSf2 (after the clear) or by itself:
\* tempParser.parse(); "return false" when it fails
LoadSf2FileParse(ok) ==
    /\ \/ lp.pc = "cleared"
       \/ lp.pc = "idle" /\ lp.loads < MaxLoads
    /\ lp' = IF ok
             THEN [lp EXCEPT !.pc = "parsed",
                             !.loads = IF lp.pc = "idle" THEN @ + 1 ELSE @,
                             !.headers = @ \cup {lp.gen + 1},
                             !.buffers = @ \cup {lp.gen + 1}]
             ELSE [lp EXCEPT !.pc = "idle",
                             !.loads = IF lp.pc = "idle" THEN @ + 1 ELSE @]
    /\ last' = NoCall
    /\ UNCHANGED <<font, channels, voices, rq, rc, received>>

\* parser = std::move(tempParser): the containers of the old parser are
\* destroyed, its PCM buffers are not freed
LoadSf2FileMove ==
    /\ lp.pc = "parsed"
    /\ font' = FontGM
    /\ lp' = [lp EXCEPT !.pc = "moved", !.gen = @ + 1, !.headers = @ \ {lp.gen}]
    /\ last' = NoCall
    /\ UNCHANGED <<channels, voices, rq, rc, received>>

\* reset(); GMReset(); return true
LoadSf2FileReset ==
    /\ lp.pc = "moved"
    /\ \E r \in {reset(voices, channels)} :
          \E g \in {GMReset(r.vs, r.chs, font)} :
             /\ voices' = g.vs
             /\ channels' = g.chs
    /\ lp' = [lp EXCEPT !.pc = "idle"]
    /\ last' = Last("reset", 0, 0, 0)
    /\ UNCHANGED <<font, rq, rc, received>>

SwapNext ==
    \/ \E note \in Notes, vel \in Velocities : SwapNoteOn(0, note, vel)
    \/ \E note \in Notes : NoteOff(0, note)
    \/ SwapRender
    \/ LoadNextSf2Clear
    \/ \E ok \in BOOLEAN : LoadSf2FileParse(ok)
    \/ LoadSf2FileMove
    \/ LoadSf2FileReset

SpecSwap == SwapInit /\ [][SwapNext]_vars

\* C20: every active voice's sample header and PCM buffer belong to the
\* SoundFont the parser holds now, and neither has been destroyed or freed.
C20_ActiveVoicesUseCurrentFont ==
    \A i \in VoiceIds :
        voices[i].active =>
            /\ lp.of[i] = lp.gen
            /\ lp.of[i] \in lp.headers
            /\ lp.of[i] \in lp.buffers

(***************************************************************************)
(* Release variants (specification Spec)                                   *)
(***************************************************************************)
\* C21: immediately after a noteOn that started a voice of exclusive class
\* X > 0, every other active voice of class X on the channel, cut off because
\* it shares the class, is in the semi-fast release segment (or idle, when the
\* release has run out), a segment distinct from the fast release of a voice
\* steal and from the regular release of noteOff.
C21_ClassCutoffIsSemiFast ==
    last.op = "noteOn" =>
        \A X \in ClassesStarted :
            \A j \in ActiveOfClass(last.ch, X) \ {LastStartedFor(X)} :
                voices[j].ampEnv.mode \in {"SEMI_FAST_RELEASE", "IDLE"}

(***************************************************************************)
(* The envelope by itself (specification SpecEnv): Adsr with every field   *)
(* process() reads.  A coefficient D0 is "instant" (1.0f, time 0) or slow  *)
(* (below 1): a slow step moves the level one grid step towards its        *)
(* target.  The target -0.1f is kept as -1, the attack target 1.01f as     *)
(* EnvOne + 1.  lp.e is the envelope, lp.op the call that has just         *)
(* returned on it, lp.prev the segment before that call, lp.path the       *)
(* segments passed since the last retrigger.                               *)
(***************************************************************************)
MaxHoldSamples == 1
Hardness == {"END_NOW", "END_FAST", "END_SEMI_FAST", "END_REGULAR"}
AttackTarget == EnvOne + 1
BelowZero == -1

\* the time and level setters prepareStart calls: attack, decay, hold,
\* sustain level, release
AdsrParams ==
    [ attackInstant : BOOLEAN, decayInstant : BOOLEAN, releaseInstant : BOOLEAN,
      holdSamples : 0..MaxHoldSamples, sus : 0..EnvOne ]

\* Adsr::init
AdsrInit ==
    [ mode |-> "IDLE", x |-> 0, gate |-> FALSE, target |-> BelowZero, instant |-> TRUE,
      holdCounter |-> MaxHoldSamples,
      attackInstant |-> TRUE, decayInstant |-> FALSE, releaseInstant |-> FALSE,
      holdSamples |-> MaxHoldSamples, sus |-> EnvOne ]

\* setAttackTime, setDecayTime, setHoldTime, setSustainLevel, setReleaseTime
AdsrConfigure(e, p) ==
    [ e EXCEPT !.attackInstant = p.attackInstant, !.decayInstant = p.decayInstant,
               !.releaseInstant = p.releaseInstant, !.sus = p.sus,
               !.holdSamples = p.holdSamples, !.holdCounter = p.holdSamples ]

\* Adsr::retrigger(END_NOW)
AdsrRetrigger(e) ==
    [e EXCEPT !.gate = TRUE, !.mode = "ATTACK", !.x = 0, !.instant = e.attackInstant]

\* Adsr::end
AdsrEnd(e, hardness) ==
    LET g == [e EXCEPT !.gate = FALSE, !.target = BelowZero] IN
    CASE hardness = "END_NOW" ->
             [g EXCEPT !.mode = "IDLE", !.instant = e.attackInstant, !.x = 0]
      [] hardness = "END_FAST" ->
             [g EXCEPT !.mode = "FAST_RELEASE", !.instant = FALSE]
      [] hardness = "END_SEMI_FAST" ->
             [g EXCEPT !.mode = "SEMI_FAST_RELEASE", !.instant = FALSE]
      [] OTHER ->
             [g EXCEPT !.mode = "RELEASE", !.instant = e.releaseInstant]

\* x_ += D0_ * (target - x_)
Approach(x, target, instant) ==
    IF instant THEN target
    ELSE IF x < target THEN x + 1
    ELSE IF x > target THEN x - 1
    ELSE x

\* the target of the decay that follows a hold: sus_level_ - (x_ - sus_level_) * 0.1f,
\* negative when 1.1 * sus_level_ is below 0.1 * x_
TargetAfterHold(e) == IF 11 * e.sus < e.x THEN BelowZero ELSE e.sus

\* an Adsr::process that starts the attack again when a release has run out
AdsrProcess_loops(e) ==
    IF e.mode \in ReleaseSegments
    THEN [e EXCEPT !.mode = "ATTACK", !.x = 0]
    ELSE e

\* Adsr::process
AdsrProcess(e) ==
    CASE e.mode = "ATTACK" ->
             LET out == Approach(e.x, AttackTarget, e.instant) IN
             IF out >= EnvOne
             THEN IF e.holdSamples > 0
                  THEN [e EXCEPT !.x = EnvOne, !.mode = "HOLD",
                                 !.holdCounter = e.holdSamples]
                  ELSE [e EXCEPT !.x = EnvOne, !.mode = "DECAY", !.target = e.sus,
                                 !.instant = e.decayInstant]
             ELSE [e EXCEPT !.x = out]
      [] e.mode = "HOLD" ->
             IF e.holdCounter > 0
             THEN [e EXCEPT !.holdCounter = @ - 1]
             ELSE [e EXCEPT !.mode = "DECAY", !.target = TargetAfterHold(e),
                            !.instant = e.decayInstant]
      [] e.mode \in {"DECAY"} \cup ReleaseSegments ->
             LET out == Approach(e.x, e.target, e.instant) IN
             IF out < 0
             THEN [e EXCEPT !.mode = "IDLE", !.x = 0, !.target = BelowZero,
                            !.instant = e.attackInstant]
             ELSE [e EXCEPT !.x = out]
      [] OTHER -> e

EnvInit0 ==
    /\ font = FontGM
    /\ channels = [ch \in Channels |-> ChannelInit]
    /\ voices = [i \in VoiceIds |-> VoiceInit]
    /\ last = NoCall
    /\ rq = Idle
    /\ lp = [phase |-> "env", e |-> AdsrInit, op |-> "init", h |-> "END_NOW",
             prev |-> "IDLE", path |-> {"IDLE"}]
    /\ rc = Idle
    /\ received = 0

EnvStep(op, h, e) ==
    /\ lp' = [lp EXCEPT !.e = e, !.op = op, !.h = h, !.prev = lp.e.mode,
                        !.path = IF op = "retrigger" THEN {e.mode} ELSE @ \cup {e.mode}]
    /\ UNCHANGED <<font, channels, voices, last, rq, rc, received>>

EnvConfigure(p) == EnvStep("configure", "END_NOW", AdsrConfigure(lp.e, p))
EnvRetrigger == EnvStep("retrigger", "END_NOW", AdsrRetrigger(lp.e))
EnvEnd(h) == EnvStep("end", h, AdsrEnd(lp.e, h))
EnvProcess == \E e \in {AdsrProcess(lp.e)} : EnvStep("process", "END_NOW", e)

EnvNext ==
    \/ \E p \in AdsrParams : EnvConfigure(p)
    \/ EnvRetrigger
    \/ \E h \in Hardness : EnvEnd(h)
    \/ EnvProcess

SpecEnv == EnvInit0 /\ [][EnvNext]_vars

\* the level process() computes in a decay or release segment, before the test
\* "out < 0"
LevelOf(e) == Approach(e.x, e.target, e.instant)

\* C22: the segment changes only as follows.  Attack is entered only by a
\* retrigger; Hold only from Attack and Decay only from Attack or Hold, by
\* process(); a release segment only by end(); Idle only by an immediate end
\* or by process() from a decay or release segment whose level fell below
\* zero; from a release segment the envelope goes to Attack only by a
\* retrigger and never to Hold or Decay.
C22_SegmentOrder ==
    [][ LET m == lp.e.mode
            n == lp'.e.mode
            op == lp'.op
        IN  /\ (n = "ATTACK" /\ op # "retrigger") => m = "ATTACK"
            /\ (n = "HOLD" /\ m # "HOLD") => (m = "ATTACK" /\ op = "process")
            /\ (n = "DECAY" /\ m # "DECAY") => (m \in {"ATTACK", "HOLD"} /\ op = "process")
            /\ (n \in ReleaseSegments /\ m # n) => op = "end"
            /\ (n = "IDLE" /\ m # "IDLE") =>
                   \/ op = "end" /\ lp'.h = "END_NOW"
                   \/ /\ op = "process"
                      /\ m \in {"DECAY"} \cup ReleaseSegments
                      /\ LevelOf(lp.e) < 0
            /\ m \in ReleaseSegments => n \notin {"HOLD", "DECAY"}
      ]_vars

\* a whole cycle: retriggered, through Hold and Decay, released by end(), and
\* run out to Idle by process()
C22_Witness ==
    /\ lp.phase = "env"
    /\ lp.op = "process"
    /\ lp.e.mode = "IDLE"
    /\ lp.prev \in ReleaseSegments
    /\ {"ATTACK", "HOLD", "DECAY"} \subseteq lp.path

(***************************************************************************)
(* The scheduler with an audio task that keeps rendering (specification    *)
(* SpecLive): the handlers of the scheduler model, and renderLRBlock       *)
(* taken again and again (audio_task loops forever on it).  After          *)
(* a block, last.sustained is the set of voices the block found active in  *)
(* a release segment.                                                      *)
(***************************************************************************)
Releasing(i) == voices[i].active /\ voices[i].ampEnv.mode \in ReleaseSegments

LiveRender ==
    /\ UNCHANGED received
    /\ voices' = renderLRBlock(voices)
    /\ last' = [ Last("render", 0, 0, 0) EXCEPT
                   !.sustained = {i \in VoiceIds : Releasing(i)} ]
    /\ UNCHANGED <<font, channels, rq, lp, rc>>

LiveNext ==
    \/ \E note \in Notes, vel \in Velocities : NoteOn(0, note, vel)
    \/ \E note \in Notes : NoteOff(0, note)
    \/ \E cv \in CCInputs : ControlChange(0, cv[1], cv[2])
    \/ UpdateScores
    \/ LiveRender

SpecLive == Init /\ [][LiveNext]_vars /\ WF_vars(LiveRender)

\* C23 as stated: while the audio task keeps rendering, every voice whose
\* envelope has entered a release segment eventually has its active flag
\* cleared, with the envelope idle.
C23_ReleasedVoiceEnds ==
    \A i \in VoiceIds :
        Releasing(i) ~> (~ voices[i].active /\ isIdle(voices[i].ampEnv))

\* the slot has just been started again by a noteOn
Restarted(i) ==
    last.op = "noteOn" /\ \E k \in 1..Len(last.started) : last.started[k] = i

\* C23, amended: while the audio task keeps rendering, every voice whose
\* envelope has entered a release segment eventually has its active flag
\* cleared (by the envelope reaching idle, or by the sample position passing
\* the end of the sample while the envelope is still in the release), unless a
\* noteOn takes the slot for a new note before that.
C23_ReleasedVoiceEndsOrIsRestarted ==
    \A i \in VoiceIds :
        Releasing(i) ~> (~ voices[i].active \/ Restarted(i))

\* a block has just ended a voice it found in a release segment
C23_Witness ==
    /\ last.op = "render"
    /\ \E i \in last.sustained : ~ voices[i].active /\ isIdle(voices[i].ampEnv)

(***************************************************************************)
(* The control-rate pass (specification Spec)                              *)
(***************************************************************************)
\* C24: the control-rate pass Synth::updateScores reads the envelopes without
\* advancing them: it leaves the segment and the level of every voice's
\* envelope as they were.
C24_UpdateScoresKeepsEnvelope ==
    [][ UpdateScores =>
            \A i \in VoiceIds : voices'[i].ampEnv = voices[i].ampEnv ]_vars

(***************************************************************************)
(* MonoLegato noteOn (specification SpecSilent)                            *)
(***************************************************************************)
HeldOn(ch) ==
    {i \in VoiceIds : voices[i].active /\ voices[i].channel = ch /\ voices[i].noteHeld}
UnheldOn(ch) ==
    {i \in VoiceIds : voices[i].active /\ voices[i].channel = ch /\ ~ voices[i].noteHeld}

\* the step is a noteOn(ch, note, vel) with a velocity above 0 on a MonoLegato
\* channel that has an active voice whose key is held
LegatoNoteOn(ch, note, vel) ==
    /\ received' = received + 1
    /\ last'.op = "noteOn" /\ last'.ch = ch /\ last'.a = note /\ last'.b = vel
    /\ vel > 0
    /\ channels[ch].monoMode = "MonoLegato"
    /\ HeldOn(ch) # {}

\* the phase increment of voice v played at note
IncAt(v, note) ==
    PhaseInc((note - (IF v.zone.rootKey >= 0 THEN v.zone.rootKey
                      ELSE font.samples[v.sample + 1].originalPitch))
             + v.zone.coarseTune)

\* what the claim says the step does: no voice is started, every held voice of
\* the channel is retuned to the note and keeps its envelope, every active
\* voice of the channel whose key is up is sent to the fast release
LegatoRetunes(ch, note) ==
    /\ last'.started = <<>>
    /\ \A i \in HeldOn(ch) :
           /\ voices'[i].note = note
           /\ voices'[i].inc = IncAt(voices[i], note)
           /\ voices'[i].ampEnv = voices[i].ampEnv
           /\ voices'[i].active /\ voices'[i].noteHeld
    /\ \A i \in UnheldOn(ch) :
           /\ voices'[i].ampEnv = end(voices[i].ampEnv, "END_FAST")
           /\ ~ voices'[i].noteHeld
    /\ \A i \in VoiceIds \ (HeldOn(ch) \cup UnheldOn(ch)) : voices'[i] = voices[i]

\* C25 as stated: in MonoLegato mode a noteOn on a channel that has an active
\* voice whose key is held starts no voice and retriggers no envelope; every
\* held voice is retuned to the new note and keeps its envelope state, the
\* active voices whose key is up are sent to die().
C25_LegatoNoteOnRetunes ==
    [][ \A ch \in SilentChannels, note \in Notes, vel \in SilentVelocities :
            LegatoNoteOn(ch, note, vel) => LegatoRetunes(ch, note) ]_vars

\* C25, amended: the same, for a noteOn whose note and velocity resolve to at
\* least one zone under the channel's bank and program (a noteOn that resolves
\* to no zone returns before the mode is looked at and retunes nothing).
C25_LegatoNoteOnWithZoneRetunes ==
    [][ \A ch \in SilentChannels, note \in Notes, vel \in SilentVelocities :
            ( /\ LegatoNoteOn(ch, note, vel)
              /\ getZonesForNote(font, note, vel, getBank(channels[ch]),
                                 channels[ch].program) # <<>> )
            => LegatoRetunes(ch, note) ]_vars

\* a legato noteOn with a zone has returned without starting a voice: a held
\* voice now plays the new note with its envelope past the attack, and a voice
\* whose key was up is in the fast release
C25_Witness ==
    /\ last.op = "noteOn" /\ last.b > 0 /\ last.zones > 0
    /\ channels[last.ch].monoMode = "MonoLegato"
    /\ last.started = <<>>
    /\ \E i \in VoiceIds :
           /\ voices[i].active /\ voices[i].channel = last.ch /\ voices[i].noteHeld
           /\ voices[i].note = last.a
           /\ voices[i].zone.keyLo # last.a
           /\ voices[i].ampEnv.mode = "DECAY"
    /\ \E j \in VoiceIds :
           /\ voices[j].active /\ voices[j].channel = last.ch /\ ~ voices[j].noteHeld
           /\ voices[j].ampEnv.mode = "FAST_RELEASE"

(***************************************************************************)
(* MonoLegato noteOff (specification Spec)                                 *)
(***************************************************************************)
VoicesOn(ch) == {i \in VoiceIds : voices[i].active /\ voices[i].channel = ch}

\* the step is a noteOff(ch, note) on a MonoLegato channel
LegatoNoteOff(ch, note) ==
    /\ received' = received + 1
    /\ last'.op = "noteOff" /\ last'.ch = ch /\ last'.a = note
    /\ channels[ch].monoMode = "MonoLegato"

\* C26: in MonoLegato mode, after a noteOff that leaves the channel's note
\* stack non-empty every active voice of the channel is tuned to the
\* top-of-stack note, and no envelope has been retriggered or released; after
\* a noteOff that empties the stack every active voice of the channel has been
\* stopped (stop(): its key-held flag is cleared and, unless the sustain pedal
\* is down, its envelope is in the regular release).
C26_LegatoNoteOffRetunesOrStops ==
    [][ \A ch \in Channels, note \in Notes :
            LegatoNoteOff(ch, note) =>
                /\ hasNotes(channels'[ch]) =>
                       \A i \in VoicesOn(ch) :
                           /\ voices'[i].note = topNote(channels'[ch])
                           /\ voices'[i].inc = IncAt(voices[i], topNote(channels'[ch]))
                           /\ voices'[i].ampEnv = voices[i].ampEnv
                           /\ voices'[i].noteHeld = voices[i].noteHeld
                           /\ voices'[i].active
                /\ ~ hasNotes(channels'[ch]) =>
                       \A i \in VoicesOn(ch) :
                           /\ ~ voices'[i].noteHeld
                           /\ voices'[i].ampEnv =
                                  IF channels[ch].sustainPedal THEN voices[i].ampEnv
                                  ELSE end(voices[i].ampEnv, "END_REGULAR")
                /\ \A i \in VoiceIds \ VoicesOn(ch) : voices'[i] = voices[i] ]_vars

\* a legato noteOff has let go of the sounding key while another key is down:
\* the channel's voice plays the key that is left, its envelope not released
C26_Witness ==
    /\ last.op = "noteOff"
    /\ channels[last.ch].monoMode = "MonoLegato"
    /\ hasNotes(channels[last.ch])
    /\ topNote(channels[last.ch]) < last.a
    /\ \E i \in VoicesOn(last.ch) :
           /\ voices[i].note = topNote(channels[last.ch])
           /\ voices[i].noteHeld
           /\ voices[i].ampEnv.mode = "DECAY"

(***************************************************************************)
(* MonoRetrig (specification Spec)                                         *)
(***************************************************************************)
\* the channel has a voice that sounds the note: active, and its envelope
\* neither in a release segment nor idle
Sounding(ch, note) ==
    \E i \in VoiceIds :
        /\ voices[i].active /\ voices[i].channel = ch /\ voices[i].note = note
        /\ voices[i].ampEnv.mode \notin ReleaseSegments \cup {"IDLE"}

\* C27: in MonoRetrig mode, after a noteOn or noteOff that leaves the channel's
\* note stack non-empty, the channel has a sounding (not releasing) voice for
\* the top-of-stack note.
C27_RetrigSoundsTopOfStack ==
    ( /\ last.op \in {"noteOn", "noteOff"}
      /\ channels[last.ch].monoMode = "MonoRetrig"
      /\ hasNotes(channels[last.ch]) )
    => Sounding(last.ch, topNote(channels[last.ch]))

(***************************************************************************)
(* The choice of allocateVoice (specification Spec), seen at a Poly noteOn *)
(* that resolves to one zone with a sample: the voice it starts is the     *)
(* voice allocateVoice returned for the pool the noteOn found.             *)
(***************************************************************************)
\* the step is a Poly noteOn(ch, note, vel) with one zone to start
OneZoneNoteOn(ch, note, vel) ==
    /\ received' = received + 1
    /\ last'.op = "noteOn" /\ last'.ch = ch /\ last'.a = note /\ last'.b = vel
    /\ vel > 0
    /\ channels[ch].monoMode = "Poly"
    /\ last'.zones = 1
    /\ Len(last'.started) = 1

\* the exclusive class of that zone
ClassOfZone(ch, note, vel) ==
    LET zs == getZonesForNote(font, note, vel, getBank(channels[ch]), channels[ch].program)
    IN  zs[CHOOSE k \in 1..Len(zs) : zs[k].sample # NoSample].exclusiveClass

\* the pool when findWeakestVoiceOnNote takes the scores of the pair's voices:
\* the channel's voices of the zone's class have been sent to die()
PoolAtWeakest(ch, X) ==
    [ i \in VoiceIds |->
        IF voices[i].active /\ voices[i].channel = ch
           /\ voices[i].exclusiveClass > 0 /\ voices[i].exclusiveClass = X
        THEN die(voices[i]) ELSE voices[i] ]

\* the pool when findWorstVoice takes the scores: the voices of the pair have
\* had their score refreshed once already
PoolAtWorst(ch, note, X) ==
    [ i \in VoiceIds |->
        IF i \in ActiveOn(ch, note) THEN updateScore(PoolAtWeakest(ch, X)[i])
        ELSE PoolAtWeakest(ch, X)[i] ]

\* findWorstVoice returns the voice at once: after its score refresh it is
\* inactive or its envelope is not running
NotRunning(w) == ~ updateScore(w).active \/ ~ isRunning(updateScore(w).ampEnv)

\* the voice has the lowest score of the voices S of pool p
LowestIn(pick, S, p) == \A j \in S : ScoreOf(p[pick]) <= ScoreOf(p[j])

\* the pair is at its limit: the lowest-scored voice of the pair is taken
PairRule(ch, note, X, pick) ==
    /\ pick \in ActiveOn(ch, note)
    /\ LowestIn(pick, ActiveOn(ch, note), PoolAtWeakest(ch, X))

LayerInst ==
    [ globalGenerators |-> <<Gen(SampleModes, 1)>>,
      zones |-> << <<Gen(KeyRange, RangeRaw(60, 60)), Gen(SampleID, 0)>>,
                   <<Gen(KeyRange, RangeRaw(60, 60)), Gen(SampleID, 1)>>,
                   <<Gen(KeyRange, RangeRaw(72, 72)), Gen(SampleID, 1)>> >> ]

FontLayer ==
    [ presets |-> <<PresetOf(0, 0, 0)>>,
      instruments |-> <<LayerInst>>,
      samples |-> FontGM.samples ]

LayerInit ==
    /\ font = FontLayer
    /\ channels = [ch \in Channels |-> ChannelInit]
    /\ voices = [i \in VoiceIds |-> VoiceInit]
    /\ last = NoCall
    /\ rq = Idle
    /\ lp = Idle
    /\ rc = Idle
    /\ received = 0

LayerCCInputs == {<<64, 127>>, <<64, 0>>}

LayerNext ==
    \/ \E note \in Notes, vel \in Velocities : NoteOnMessage(0, note, vel)
    \/ \E note \in Notes : NoteOff(0, note)
    \/ \E cv \in LayerCCInputs : ControlChange(0, cv[1], cv[2])
    \/ UpdateScores
    \/ Render

SpecLayer == LayerInit /\ [][LayerNext]_vars

\* C29: a noteOn that resolves to k <= MAX_VOICES_PER_NOTE zones with samples,
\* none in an exclusive class, starts k different voices: no voice it started
\* for an earlier zone is taken again for a later zone, and all of them are
\* active on the note when it returns.
C29_EachZoneOwnVoice ==
    ( /\ last.op = "noteOn" /\ last.b > 0
      /\ last.zones <= MAX_VOICES_PER_NOTE
      /\ ~ last.nullAlloc )
    => /\ Len(last.started) = last.zones
       /\ \A k1, k2 \in 1..Len(last.started) :
              k1 # k2 => last.started[k1] # last.started[k2]
       /\ \A k \in 1..Len(last.started) :
              /\ voices[last.started[k]].active
              /\ voices[last.started[k]].note = last.a

\* ---------------------------------------------------------------------------
\* Preset zone ranges in getZonesForNote

\* KeyRange and VelRange a preset zone declares, 0..127 where it has none
PresetZoneRanges(pzone) ==
    ApplyGenLoop(font, pzone, 1,
                 [keyLo |-> 0, keyHi |-> 127, velLo |-> 0, velHi |-> 127,
                  sample |-> NullPtr, rootKey |-> 0])

PresetZoneAdmits(pzone, note, velocity) ==
    LET r == PresetZoneRanges(SelectSeq(pzone, LAMBDA g : g.oper \in {KeyRange, VelRange}))
    IN  /\ r.keyLo <= note /\ note <= r.keyHi
        /\ r.velLo <= velocity /\ velocity <= r.velHi

\* C30: when no preset zone of the selected preset has a KeyRange and a
\* VelRange that contain the queried note and velocity, getZonesForNote
\* returns no zone.
C30_ExcludingPresetZoneGivesNoZone ==
    rq.phase = "resolved" =>
        ( (\A j \in 1..Len(font.presets[1].zones) :
               ~ PresetZoneAdmits(font.presets[1].zones[j], rq.note, rq.velocity))
          => rq.zones = <<>> )

\* ---------------------------------------------------------------------------
\* Loop address offsets of the instrument's global zone and of its zone

OffsetOps ==
    {StartLoopAddrOffset, EndLoopAddrOffset,
     StartLoopAddrCoarseOffset, EndLoopAddrCoarseOffset}
\* raw 16-bit amounts: 1, 2 and -1
OffsetAmounts == {1, 2, 65535}
OffsetField(op) ==
    CASE op = StartLoopAddrOffset -> "loopStartOffset"
      [] op = EndLoopAddrOffset -> "loopEndOffset"
      [] op = StartLoopAddrCoarseOffset -> "loopStartCoarseOffset"
      [] op = EndLoopAddrCoarseOffset -> "loopEndCoarseOffset"

\* the instrument's global zone holds the offset ga, its zone the offset za
OffsetFont(op, ga, za) ==
    [ presets |-> <<PresetOf(0, 0, 0)>>,
      instruments |-> << [ globalGenerators |-> <<Gen(op, ga)>>,
                           zones |-> << <<Gen(op, za), Gen(SampleID, 0)>> >> ] >>,
      samples |-> <<LoopedSample(60)>> ]

OffsetInit ==
    /\ font \in {OffsetFont(op, ga, za) :
                    op \in OffsetOps, ga \in OffsetAmounts, za \in OffsetAmounts}
    /\ channels = [ch \in Channels |-> ChannelInit]
    /\ voices = [i \in VoiceIds |-> VoiceInit]
    /\ last = NoCall
    /\ rq = Idle
    /\ lp = Idle
    /\ rc = Idle
    /\ received = 0

SpecOffset == OffsetInit /\ [][ResolveNext]_vars

\* C31: the resolved loop address offset of a zone is the sum of the amount in
\* the instrument's global zone and the amount in the instrument's zone.
C31_OffsetsAreSummed ==
    rq.phase = "resolved" =>
        \A k \in 1..Len(rq.zones) :
            \A i \in 1..Len(font.instruments[1].globalGenerators) :
                LET g == font.instruments[1].globalGenerators[i]
                    z == font.instruments[1].zones[1][1]
                IN  g.oper \in OffsetOps =>
                        rq.zones[k][OffsetField(g.oper)] = sAmount(g) + sAmount(z)

(***************************************************************************)
(* The sustain loop model (specification SpecSustain): the preset plays a  *)
(* sample of five frames with the loop 1..3 in SUSTAIN_LOOP mode; the      *)
(* audio task is followed one nextSample() at a time.                      *)
(***************************************************************************)
TailSample ==
    [originalPitch |-> 60, start |-> 0, end |-> 5, startLoop |-> 1, endLoop |-> 3]

SustainInst ==
    [ globalGenerators |-> <<Gen(SampleModes, 2)>>,
      zones |-> << <<Gen(SampleID, 0)>> >> ]

FontSustain ==
    [ presets |-> <<PresetOf(0, 0, 0)>>,
      instruments |-> <<SustainInst>>,
      samples |-> <<TailSample>> ]

SustainInit ==
    /\ font = FontSustain
    /\ channels = [ch \in Channels |-> ChannelInit]
    /\ voices = [i \in VoiceIds |-> VoiceInit]
    /\ last = NoCall
    /\ rq = Idle
    /\ lp = Idle
    /\ rc = Idle
    /\ received = 0

\* one pass of the loop of renderLRBlock over voice i: one nextSample()
SampleStep(i) ==
    /\ voices[i].active
    /\ voices' = [voices EXCEPT ![i] = nextSample(@)]
    /\ last' = Last("sample", 0, i, 0)
    /\ UNCHANGED <<font, channels, rq, lp, rc, received>>

PerSampleNext ==
    \/ \E note \in Notes, vel \in Velocities : NoteOn(0, note, vel)
    \/ \E note \in Notes : NoteOff(0, note)
    \/ \E cv \in CCInputs : ControlChange(0, cv[1], cv[2])
    \/ \E i \in VoiceIds : SampleStep(i)

SpecSustain == SustainInit /\ [][PerSampleNext]_vars

\* the nextSample() of voice i in this step reached the loop switch
ReachedLoopSwitch(i) ==
    /\ SampleStep(i)
    /\ U32Lt(PhaseIdx(voices[i].phase), voices[i].length)

\* C32: a SUSTAIN_LOOP voice wraps only in a nextSample() that finds the note
\* held; the first nextSample() that finds it not held makes the voice one-shot;
\* a one-shot voice stays one-shot and its phase never goes back until a noteOn
\* starts the voice again, whatever retunes it; and a one-shot voice whose
\* phase has reached the length is inactive after nextSample().
C32_SustainLoopBecomesOneShot ==
    [][ \A i \in VoiceIds :
          /\ ( ReachedLoopSwitch(i) /\ voices[i].loopType = "SUSTAIN_LOOP" ) =>
                 /\ voices'[i].phase < voices[i].phase + voices[i].inc
                        => voices[i].noteHeld
                 /\ ~ voices[i].noteHeld => voices'[i].loopType = "NO_LOOP"
                 /\ voices[i].noteHeld => voices'[i].loopType = "SUSTAIN_LOOP"
          /\ ( voices[i].zone.sampleModes = 2 /\ voices[i].loopType = "NO_LOOP"
               /\ ~ ( last'.op = "noteOn" /\ \E k \in 1..Len(last'.started) :
                                                last'.started[k] = i ) ) =>
                 /\ voices'[i].loopType = "NO_LOOP"
                 /\ voices'[i].phase >= voices[i].phase
          /\ ( SampleStep(i) /\ voices'[i].loopType = "NO_LOOP"
               /\ PhaseGe(voices'[i].phase, voices'[i].length) ) =>
                 ~ voices'[i].active
      ]_vars

\* a released voice that was started on the sustain loop plays the tail past
\* the loop on key 72, and the audio task has just run it
C32_Witness ==
    /\ last.op = "sample"
    /\ \E i \in VoiceIds :
         /\ last.a = i
         /\ voices[i].active
         /\ voices[i].zone.sampleModes = 2
         /\ voices[i].loopType = "NO_LOOP"
         /\ ~ voices[i].noteHeld
         /\ voices[i].note = 72
         /\ PhaseGe(voices[i].phase, voices[i].loopEnd)

\* ---------------------------------------------------------------------------
\* Forward loops one nextSample() at a time (specification SpecForward): the
\* font of Init, whose zones all play in FORWARD_LOOP mode

SpecForward == Init /\ [][PerSampleNext]_vars

\* C33: after every nextSample() of a FORWARD_LOOP voice with a positive phase
\* increment the phase is below loopEnd, and the voice is still active unless
\* its envelope is idle.
C33_ForwardLoopStaysBelowLoopEnd ==
    [][ \A i \in VoiceIds :
          ( SampleStep(i) /\ voices[i].loopType = "FORWARD_LOOP"
            /\ voices[i].inc > 0 ) =>
              /\ ~ PhaseGe(voices'[i].phase, voices'[i].loopEnd)
              /\ ~ voices'[i].active => isIdle(voices'[i].ampEnv)
      ]_vars

(***************************************************************************)
(* The channel index at the MIDI entry points (specification SpecGuard).   *)
(* Synth::channels has ChannelCount elements; an entry point that does not *)
(* test its index reads and writes, for the index ChannelCount, the memory  *)
(* that follows the array.  lp.beyond is that memory read as a             *)
(* ChannelState: Init draws what it holds.                                  *)
(***************************************************************************)
GuardChannels == {0, ChannelCount}
GuardVelocities == {0, 100}
GuardCCInputs == {<<64, 127>>, <<64, 0>>, <<126, 1>>, <<127, 0>>}
GuardSysExInputs == {XGPartParam(part, 5, val) : part \in GuardChannels, val \in {0, 1}}

\* what the memory after the array may hold: a state that selects a preset
\* of the font, or one that selects none
BeyondStates == {ChannelInit, [ChannelInit EXCEPT !.program = 1]}

GuardInit ==
    /\ font = FontGM
    /\ channels = [ch \in Channels |-> ChannelInit]
    /\ voices = [i \in VoiceIds |-> VoiceInit]
    /\ last = NoCall
    /\ rq = Idle
    /\ lp \in {[phase |-> "guard", beyond |-> g] : g \in BeyondStates}
    /\ rc = Idle
    /\ received = 0

\* channels[] followed by the memory after it
Ext == [c \in Channels \cup {ChannelCount} |->
            IF c \in Channels THEN channels[c] ELSE lp.beyond]

\* the channels and the memory after them, written back
StoreExt(chs) ==
    /\ channels' = [c \in Channels |-> chs[c]]
    /\ lp' = [lp EXCEPT !.beyond = chs[ChannelCount]]

\* Synth::noteOff: 'if (ch >= 16) return;' comes first
EntryNoteOff(ch, note) ==
    /\ Receive
    /\ IF ch >= ChannelCount THEN UNCHANGED <<voices, channels, lp>>
       ELSE \E r \in {noteOff(voices, Ext, ch, note, font)} :
                voices' = r.vs /\ StoreExt(r.chs)
    /\ last' = Last("noteOff", ch, note, 0)
    /\ UNCHANGED <<font, rq, rc>>

\* Synth::noteOn: velocity 0 goes to noteOff; otherwise channels[ch] is used
\* with no test of ch
EntryNoteOn(ch, note, vel) ==
    /\ Receive
    /\ IF vel = 0 /\ ch >= ChannelCount THEN UNCHANGED <<voices, channels, lp>>
       ELSE \E r \in {noteOn(voices, Ext, ch, note, vel, font)} :
                voices' = r.vs /\ StoreExt(r.chs)
    /\ last' = Last("noteOn", ch, note, vel)
    /\ UNCHANGED <<font, rq, rc>>

\* Synth::controlChange: 'if (ch >= 16) return;' comes first
EntryControlChange(ch, ctrl, val) ==
    /\ Receive
    /\ IF ch >= ChannelCount THEN UNCHANGED <<voices, channels, lp>>
       ELSE \E r \in {controlChange(voices, Ext, ch, ctrl, val, font)} :
                voices' = r.vs /\ StoreExt(r.chs)
    /\ last' = Last("controlChange", ch, ctrl, val)
    /\ UNCHANGED <<font, rq, rc>>

\* Synth::programChange: 'if (ch >= 16) return;' comes first
EntryProgramChange(ch, program) ==
    /\ Receive
    /\ IF ch >= ChannelCount THEN UNCHANGED <<channels, lp>>
       ELSE StoreExt(programChange(Ext, ch, program, font))
    /\ last' = Last("programChange", ch, program, 0)
    /\ UNCHANGED <<font, voices, rq, rc>>

\* Synth::handleSysEx with an XG part message: 'if (part < 16)' guards
\* channels[part] and setChannelMode
EntrySysEx(data) ==
    /\ Receive
    /\ \E r \in {handleSysEx(voices, channels, data, font)} :
            voices' = r.vs /\ channels' = r.chs
    /\ last' = Last("sysEx", data[6], data[7], data[8])
    /\ UNCHANGED <<font, rq, lp, rc>>

GuardNext ==
    \/ \E ch \in GuardChannels, note \in Notes, vel \in GuardVelocities :
           EntryNoteOn(ch, note, vel)
    \/ \E ch \in GuardChannels, note \in Notes : EntryNoteOff(ch, note)
    \/ \E ch \in GuardChannels, cv \in GuardCCInputs : EntryControlChange(ch, cv[1], cv[2])
    \/ \E ch \in GuardChannels, program \in Programs : EntryProgramChange(ch, program)
    \/ \E data \in GuardSysExInputs : EntrySysEx(data)

SpecGuard == GuardInit /\ [][GuardNext]_vars

\* C34: a call of noteOn, noteOff, controlChange or programChange, or an XG
\* part message, with a channel index of 16 or more changes no channel, no
\* voice, and nothing else.
C34_ChannelIndexIsGuarded ==
    [][ ( received' = received + 1 /\ last'.ch >= ChannelCount ) =>
            UNCHANGED <<voices, channels, lp>> ]_vars

\* ---------------------------------------------------------------------------
\* The effective bank and program of a channel (specification SpecBank)

\* the channel's effective (bank, program) is a preset of the font
NamesPreset(c) == hasPreset(font, getBank(c), c.program)

\* no preset of the fallback chain of applyBankProgram(ch) exists once the
\* wanted program is program
NoCandidate(ch, program) ==
    LET c == channels[ch]
        bank == getWantBank(c)
        drum == ch = 9 \/ c.wantBankMSB = 127 \/ c.wantBankMSB = 120 \/ bank = 128
    IN  /\ ~ hasPreset(font, bank, program)
        /\ drum \/ ~ hasPreset(font, 0, program)
        /\ ~ hasPreset(font, IF drum THEN 128 ELSE 0, 0)

\* C35: with the presets (0, 0) and (128, 0) in the font every channel's
\* effective (bank, program) is a preset of the font at all times; and a
\* program change that finds no preset in its fallback chain leaves the
\* effective bank and program as they were.
C35_EffectivePresetExists ==
    /\ [] ( ( hasPreset(font, 0, 0) /\ hasPreset(font, 128, 0) ) =>
                \A ch \in Channels : NamesPreset(channels[ch]) )
    /\ [][ \A ch \in Channels, program \in Programs :
             ( ProgramChange(ch, program) /\ NoCandidate(ch, program % 128) ) =>
                 /\ getBank(channels'[ch]) = getBank(channels[ch])
                 /\ channels'[ch].program = channels[ch].program
         ]_vars

\* a program change has fallen back: the font has both presets and the
\* channel plays a preset other than the one it asked for
C35_Witness ==
    /\ hasPreset(font, 0, 0) /\ hasPreset(font, 128, 0)
    /\ last.op = "programChange"
    /\ LET c == channels[last.ch]
       IN  /\ <<getBank(c), c.program>> # <<getWantBank(c), c.wantProgram>>
           /\ <<getBank(c), c.program>> # last.before

(***************************************************************************)
(* The preset data model (specification SpecPdta): the phdr, pbag, pgen,   *)
(* inst, ibag and igen record arrays of a file, each closed by its         *)
(* terminal record, and the presets and instruments parsePDTA builds from  *)
(* them.  Indices in the records count from 0.                             *)
(***************************************************************************)
RECURSIVE Flat(_)
Flat(ss) == IF ss = <<>> THEN <<>> ELSE Head(ss) \o Flat(Tail(ss))
\* the index at which each of the lists starts in Flat(ss), counted from from
RECURSIVE StartsOf(_, _)
StartsOf(ss, from) ==
    IF ss = <<>> THEN <<>> ELSE <<from>> \o StartsOf(Tail(ss), from + Len(Head(ss)))

\* the records of a list of headers hs (each with its zones, a zone being its
\* generators), closed by the terminal header term, terminal bag and
\* terminal generator
RecordsOf(hs, term) ==
    LET zonesOf == [i \in 1..Len(hs) |-> hs[i].zones]
        bags == Flat(zonesOf)
        starts == StartsOf(zonesOf, 0)
    IN  [ hdr |-> [i \in 1..Len(hs) |->
                      [ bank |-> hs[i].bank, preset |-> hs[i].preset,
                        bagIndex |-> starts[i] ]]
                  \o << [ bank |-> term.bank, preset |-> term.preset,
                          bagIndex |-> Len(bags) ] >>,
          bag |-> StartsOf(bags, 0) \o <<Len(Flat(bags))>>,
          gen |-> Flat(bags) \o <<Gen(0, 0)>> ]

PdtaPresets ==
    { [bank |-> 0, preset |-> 0, zones |-> << <<Gen(Instrument, 0)>> >>],
      [bank |-> 0, preset |-> 1,
       zones |-> << <<Gen(Pan, 10)>>, <<Gen(Instrument, 0)>> >>],
      [bank |-> 128, preset |-> 0,
       zones |-> << <<Gen(KeyRange, RangeRaw(36, 36)), Gen(Instrument, 1)>>,
                    <<Gen(Instrument, 0)>> >>] }
PdtaInstruments ==
    { [bank |-> 0, preset |-> 0, zones |-> << <<Gen(SampleID, 0)>> >>],
      [bank |-> 0, preset |-> 0,
       zones |-> << <<Gen(SampleModes, 1)>>,
                    <<Gen(KeyRange, RangeRaw(60, 72)), Gen(SampleID, 0)>> >>] }
\* the terminal phdr record: all zero, or all ones in its numbers
PdtaTerminals == {[bank |-> 0, preset |-> 0], [bank |-> 255, preset |-> 255]}
Lists(S) == {<<a>> : a \in S} \cup {<<a, b>> : a \in S, b \in S}

PdtaFiles ==
    { [ p |-> RecordsOf(ps, term), i |-> RecordsOf(is, [bank |-> 0, preset |-> 0]) ] :
          ps \in Lists(PdtaPresets), is \in Lists(PdtaInstruments),
          term \in PdtaTerminals }

\* the generators of bag b: records bags[b].genIndex up to bags[b + 1].genIndex
BagGenerators(bags, gens, b, decode) ==
    [ k \in 1..(bags[b + 2] - bags[b + 1]) |->
        LET g == gens[bags[b + 1] + k]
        IN  IF decode THEN decodeGeneratorAmount(Gen(g.oper, 0), g.raw)
            ELSE Gen(g.oper, g.raw) ]

\* the loop over the bags b .. bEnd - 1 of one header: a zone with a
\* generator key is pushed, any other replaces the global generators
RECURSIVE BagLoop(_, _, _, _, _, _, _)
BagLoop(bags, gens, b, bEnd, key, decode, acc) ==
    IF b >= bEnd THEN acc
    ELSE LET zone == BagGenerators(bags, gens, b, decode)
             keyed == \E k \in 1..Len(zone) : zone[k].oper = key
         IN  BagLoop(bags, gens, b + 1, bEnd, key, decode,
                     IF keyed THEN [acc EXCEPT !.zones = Append(@, zone)]
                     ELSE [acc EXCEPT !.globalGenerators = zone])

\* parsePDTA after the chunks are read: the four push_back of one more end
\* record, then the loops 'for (i = 0; i + 1 < size; ++i)'
BuildPresets(file) ==
    LET phdrs == Append(file.p.hdr, [bank |-> 0, preset |-> 0,
                                     bagIndex |-> Len(file.p.bag)])
        pbags == Append(file.p.bag, Len(file.p.gen))
    IN  [ i \in 1..(Len(phdrs) - 1) |->
            LET z == BagLoop(pbags, file.p.gen, phdrs[i].bagIndex,
                             phdrs[i + 1].bagIndex, Instrument, FALSE,
                             [zones |-> <<>>, globalGenerators |-> <<>>])
            IN  [ bank |-> phdrs[i].bank, program |-> phdrs[i].preset,
                  globalGenerators |-> z.globalGenerators, zones |-> z.zones ] ]

BuildInstruments(file) ==
    LET insts == Append(file.i.hdr, [bank |-> 0, preset |-> 0,
                                     bagIndex |-> Len(file.i.bag)])
        ibags == Append(file.i.bag, Len(file.i.gen))
    IN  [ i \in 1..(Len(insts) - 1) |->
            BagLoop(ibags, file.i.gen, insts[i].bagIndex, insts[i + 1].bagIndex,
                    SampleID, TRUE, [zones |-> <<>>, globalGenerators |-> <<>>]) ]

PdtaInit ==
    /\ font = NoFont
    /\ channels = [ch \in Channels |-> ChannelInit]
    /\ voices = [i \in VoiceIds |-> VoiceInit]
    /\ last = NoCall
    /\ rq = Idle
    /\ lp \in {[phase |-> "pdta", file |-> file, parsed |-> FALSE] : file \in PdtaFiles}
    /\ rc = Idle
    /\ received = 0

ParsePdta ==
    /\ ~ lp.parsed
    /\ font' = [ presets |-> BuildPresets(lp.file),
                 instruments |-> BuildInstruments(lp.file),
                 samples |-> <<LoopedSample(60), LoopedSample(72)>> ]
    /\ lp' = [lp EXCEPT !.parsed = TRUE]
    /\ UNCHANGED <<channels, voices, last, rq, rc, received>>

PdtaNext == ParsePdta

SpecPdta == PdtaInit /\ [][PdtaNext]_vars

\* the bags of record i of the file: bagIndex[i] up to bagIndex[i + 1]
FileBags(recs, i) == recs.hdr[i].bagIndex .. (recs.hdr[i + 1].bagIndex - 1)

\* C36: after parsePDTA there is one preset per phdr record of the file but
\* the terminal one and one instrument per inst record but the terminal one,
\* the zones of each are bags of its record's range, every bag of the range
\* with an Instrument (a SampleID) generator is one of its zones, and hasPreset
\* holds of a bank and program only if a phdr record before the terminal one
\* carries them.
C36_TerminalRecordsBuildNothing ==
    lp.parsed =>
        LET p == lp.file.p
            n == lp.file.i
        IN  /\ Len(font.presets) = Len(p.hdr) - 1
            /\ Len(font.instruments) = Len(n.hdr) - 1
            /\ \A i \in 1..(Len(p.hdr) - 1) :
                 /\ i <= Len(font.presets)
                 /\ font.presets[i].bank = p.hdr[i].bank
                 /\ font.presets[i].program = p.hdr[i].preset
                 /\ Len(font.presets[i].zones) =
                        Cardinality({b \in FileBags(p, i) :
                            \E g \in (p.bag[b + 1] + 1)..p.bag[b + 2] :
                                p.gen[g].oper = Instrument})
            /\ \A i \in 1..(Len(n.hdr) - 1) :
                 /\ i <= Len(font.instruments)
                 /\ Len(font.instruments[i].zones) =
                        Cardinality({b \in FileBags(n, i) :
                            \E g \in (n.bag[b + 1] + 1)..n.bag[b + 2] :
                                n.gen[g].oper = SampleID})
            /\ \A bank \in {0, 128, 255}, program \in {0, 1, 255} :
                 hasPreset(font, bank, program) =>
                     \E i \in 1..(Len(p.hdr) - 1) :
                         p.hdr[i].bank = bank /\ p.hdr[i].preset = program

(***************************************************************************)
(* The SysEx model (specification SpecSysEx): notes are played and modes   *)
(* set on channel 0, and messages that are and are not among the ones      *)
(* handleSysEx knows arrive; rq keeps the last message and the value       *)
(* handleSysEx returned for it.                                             *)
(***************************************************************************)
SysExProbes ==
    { <<>>, GMSystemOn, XGSystemOn,
      <<240, 126, 0, 9, 1, 247>>,                    \* GM System On, device 0
      <<240, 126, 127, 9, 2, 247>>,                  \* GM System Off
      <<240, 126, 127, 9, 1, 0, 247>>,               \* one byte too long
      <<240, 67, 16, 76, 0, 0, 126, 1, 247>>,        \* XG System On with data 1
      <<240, 67, 16, 76, 8, 0, 5, 0, 0>> }           \* no end of exclusive
    \cup {XGPartParam(part, param, val) :
              part \in Channels \cup {ChannelCount}, param \in {5, 6, 7, 8},
              val \in {0, 1}}
SysExCCInputs == {<<0, 1>>, <<126, 0>>}

SysExMessage(data) ==
    /\ Receive
    /\ \E r \in {handleSysEx(voices, channels, data, font)} :
         /\ voices' = r.vs
         /\ channels' = r.chs
         /\ rq' = [phase |-> "sysex", at |-> received + 1, data |-> data, ok |-> r.ok]
    /\ last' = NoCall
    /\ UNCHANGED <<font, lp, rc>>

SysExNext ==
    \/ \E note \in BankNotes, vel \in Velocities : NoteOn(0, note, vel)
    \/ \E cv \in SysExCCInputs : ControlChange(0, cv[1], cv[2])
    \/ \E data \in SysExProbes : SysExMessage(data)

SpecSysEx == Init /\ [][SysExNext]_vars

\* the messages the claim lists, byte by byte; the third byte is the device
Recognized(data) ==
    \/ /\ Len(data) = 6
       /\ <<data[1], data[2], data[4], data[5], data[6]>> = <<240, 126, 9, 1, 247>>
    \/ /\ Len(data) = 9
       /\ <<data[1], data[2], data[4], data[9]>> = <<240, 67, 76, 247>>
       /\ \/ <<data[5], data[6], data[7], data[8]>> = <<0, 0, 126, 0>>
          \/ data[5] = 8 /\ data[6] < 16 /\ data[7] \in {5, 7, 8}

\* C37: handleSysEx returns true for GM System On, XG System On and the XG
\* part messages mono/poly, bank select and note shift of a part below 16,
\* and for every other message it returns false and leaves every channel and
\* every voice as it was.
C37_SysExRecognizedExactly ==
    [][ ( received' = received + 1 /\ rq'.phase = "sysex" /\ rq'.at = received' ) =>
            /\ rq'.ok = Recognized(rq'.data)
            /\ ~ Recognized(rq'.data) => UNCHANGED <<voices, channels>>
      ]_vars

\* an XG part message with a parameter handleSysEx does not know has been
\* refused on a channel that is in mono mode and has a sounding voice
C37_Witness ==
    /\ rq.phase = "sysex" /\ rq.at = received
    /\ ~ rq.ok
    /\ Len(rq.data) = 9 /\ rq.data[5] = 8 /\ rq.data[6] < ChannelCount /\ rq.data[7] = 6
    /\ channels[rq.data[6]].monoMode = "MonoRetrig"
    /\ \E i \in VoiceIds : voices[i].active /\ voices[i].channel = rq.data[6]

(***************************************************************************)
(* The note stack model (specification SpecStack): enough note-ons arrive  *)
(* on channel 0 to fill the stack of NOTE_STACK_SIZE notes, with note-offs, *)
(* mode switches and program changes between them.  last.before[1] is the  *)
(* size of the stack when the call was made.                               *)
(***************************************************************************)
MaxStackMessages == 10
StackModes == {<<126, 0>>, <<126, 1>>, <<127, 0>>}

StackReceive ==
    /\ received < MaxStackMessages
    /\ received' = received + 1

StackLast(op, a, b) ==
    [Last(op, 0, a, b) EXCEPT !.before = <<Len(channels[0].noteStack), 0>>]

StackNoteOn(note, vel) ==
    /\ StackReceive
    /\ \E r \in {noteOn(voices, channels, 0, note, vel, font)} :
         voices' = r.vs /\ channels' = r.chs
    /\ last' = StackLast("noteOn", note, vel)
    /\ UNCHANGED <<font, rq, lp, rc>>

StackNoteOff(note) ==
    /\ StackReceive
    /\ \E r \in {noteOff(voices, channels, 0, note, font)} :
         voices' = r.vs /\ channels' = r.chs
    /\ last' = StackLast("noteOff", note, 0)
    /\ UNCHANGED <<font, rq, lp, rc>>

StackControlChange(ctrl, val) ==
    /\ StackReceive
    /\ \E r \in {controlChange(voices, channels, 0, ctrl, val, font)} :
         voices' = r.vs /\ channels' = r.chs
    /\ last' = StackLast("controlChange", ctrl, val)
    /\ UNCHANGED <<font, rq, lp, rc>>

StackProgramChange(program) ==
    /\ StackReceive
    /\ channels' = programChange(channels, 0, program, font)
    /\ last' = StackLast("programChange", program, 0)
    /\ UNCHANGED <<font, voices, rq, lp, rc>>

StackNext ==
    \/ \E note \in Notes, vel \in Velocities : StackNoteOn(note, vel)
    \/ \E note \in Notes : StackNoteOff(note)
    \/ \E cv \in StackModes : StackControlChange(cv[1], cv[2])
    \/ \E program \in Programs : StackProgramChange(program)

SpecStack == Init /\ [][StackNext]_vars

\* s without its first note: the notes before it and after it in their order
WithoutFirst(s, note) ==
    LET at == {k \in 1..Len(s) : s[k] = note} IN
    IF at = {} THEN s
    ELSE LET i == CHOOSE k \in at : \A j \in at : k <= j
         IN  [k \in 1..(Len(s) - 1) |-> IF k < i THEN s[k] ELSE s[k + 1]]

\* C38: the stack of a channel never holds more than NOTE_STACK_SIZE notes; a
\* noteOn leaves a full stack as it is and otherwise puts its note on top or
\* leaves the stack alone; a noteOff takes out the first occurrence of its
\* note and keeps the order of the others; topNote is the note pushed last of
\* those that remain, 0xFF for an empty stack.
C38_NoteStackDiscipline ==
    /\ [] \A ch \in Channels :
            LET s == channels[ch].noteStack
            IN  /\ Len(s) <= NOTE_STACK_SIZE
                /\ topNote(channels[ch]) = IF Len(s) = 0 THEN 255 ELSE s[Len(s)]
                /\ hasNotes(channels[ch]) <=> Len(s) > 0
    /\ [][ LET s == channels[0].noteStack
               t == channels'[0].noteStack
           IN  /\ last'.op = "noteOn" =>
                     /\ Len(s) = NOTE_STACK_SIZE => t = s
                     /\ t \in {s, Append(s, last'.a)}
               /\ last'.op = "noteOff" => t = WithoutFirst(s, last'.a)
         ]_vars

\* a noteOn has just found the stack full and left it as it was
C38_Witness ==
    /\ last.op = "noteOn"
    /\ last.before[1] = NOTE_STACK_SIZE
    /\ Len(channels[0].noteStack) = NOTE_STACK_SIZE
    /\ \E k \in 1..NOTE_STACK_SIZE : channels[0].noteStack[k] # last.a

=============================================================================
